---- MODULE Spec2Model ----
(***************************************************************************)
(* A model of cwlgo's executor: the rendering of a CommandLineTool into an *)
(* argument vector (Executor.BuildCommandLine) and the Execute pipeline    *)
(* around it.                                                              *)
(*                                                                         *)
(* Go strings are sequences of one-character strings, so that the prefix   *)
(* concatenation of the code (Prefix + cmdValue) is \o and the empty       *)
(* string is << >>.  A Go interface{} value is a record tagged with its    *)
(* dynamic type (kind).  A nil slice is the empty sequence.                *)
(***************************************************************************)
EXTENDS Integers, Sequences, FiniteSets, TLC

VARIABLES
    tool,       \* the *CommandLineTool handed to the executor
    inputs,     \* the inputs map (ExecutionContext.Inputs)
    pc,         \* position of the call under study
    calls,      \* how many times BuildCommandLine has returned
    ret,        \* what BuildCommandLine returned last: cmdArgs, err (and posArgs as sorted)
    prev,       \* what the call before that returned
    executor,   \* the *Executor: DockerEnabled, SingularityEnabled, MaxCores, MaxRAM
    execCtx,    \* the *ExecutionContext of the Execute call
    tempDirs,   \* the temporary directories that exist on the host
    spawned,    \* the processes the engine has asked the host to run, in order
    runRet,     \* what runCommand returned: result, err
    out,        \* what Execute returned: result, err
    stages,     \* the stages of Execute entered so far, in order
    dirFiles,   \* the names of the files in the output directory
    wrapped,    \* the vector a container command builder returned last
    valid,      \* what validateCommandLineTool returned for the tool
    parsed,     \* what ParseRequirement returned last, and for which record
    live        \* the concurrent Execute calls on the one Executor: position, context

\* ------------------------------------------------------------------ bounds

MaxPos == 1        \* binding positions range over 0..MaxPos
MaxArgs == 2       \* static Arguments of a tool of the ordering family
MaxInputs == 2     \* declared inputs of a tool of the ordering family

\* ------------------------------------------------------- interface{} values

Scalar(kind, s) == [kind |-> kind, s |-> s]
NoField == Scalar("nil", << >>)

Value(kind, s, b, n, class, path, elems) ==
    [kind |-> kind, s |-> s, b |-> b, n |-> n, class |-> class, path |-> path,
     elems |-> elems]

NilV == Value("nil", << >>, FALSE, 0, NoField, NoField, << >>)
StrV(s) == Value("string", s, FALSE, 0, NoField, NoField, << >>)
BoolV(b) == Value("bool", << >>, b, 0, NoField, NoField, << >>)
\* a float64 is held in tenths: FloatV(25) is 2.5
FloatV(tenths) == Value("float64", << >>, FALSE, tenths, NoField, NoField, << >>)
IntV(n) == Value("int", << >>, FALSE, n, NoField, NoField, << >>)
\* map[string]interface{} with its "class" and "path" entries
MapV(class, path) == Value("map", << >>, FALSE, 0, class, path, << >>)
\* []interface{} with scalar elements
SliceV(elems) == Value("slice", << >>, FALSE, 0, NoField, NoField, elems)

\* ------------------------------------------------------------ number forms

DigitChars == <<"0", "1", "2", "3", "4", "5", "6", "7", "8", "9">>

RECURSIVE Digits(_)
Digits(n) == IF n < 10 THEN <<DigitChars[n + 1]>>
             ELSE Digits(n \div 10) \o <<DigitChars[(n % 10) + 1]>>

\* fmt.Sprintf("%d", v)
FormatD(n) == IF n < 0 THEN <<"-">> \o Digits(-n) ELSE Digits(n)

\* fmt.Sprintf("%g", v) for a float64 v = tenths/10 with 1e-4 <= |v| < 1e6 or v = 0:
\* the shortest decimal form, without exponent, without trailing zeros
FormatG(tenths) ==
    LET a == IF tenths < 0 THEN -tenths ELSE tenths
        body == Digits(a \div 10) \o
                (IF a % 10 = 0 THEN << >> ELSE <<".", DigitChars[(a % 10) + 1]>>)
    IN  IF tenths < 0 THEN <<"-">> \o body ELSE body

\* ------------------------------------------------------------------ errors

\* a *CWLError: its message, the id the message names, and what it wraps
\* (Err): ErrExecution, or an error of the host
NoErr == [msg |-> "", id |-> "", Err |-> ""]
CWLError(msg, id) == [msg |-> msg, id |-> id, Err |-> "ErrExecution"]
HostError(msg, id) == [msg |-> msg, id |-> id, Err |-> "host"]

\* --------------------------------------------------------------- data model

\* CommandLineBinding; nil marks a nil *CommandLineBinding, Separate is the
\* *bool: "nil", "true" or "false"
CommandLineBinding(Position, Prefix, Separate, ValueFrom) ==
    [nil |-> FALSE, Position |-> Position, Prefix |-> Prefix,
     Separate |-> Separate, ValueFrom |-> ValueFrom]
NilBinding ==
    [nil |-> TRUE, Position |-> 0, Prefix |-> << >>, Separate |-> "nil",
     ValueFrom |-> NilV]

CommandInputParameter(Default, Binding) == [Default |-> Default, Binding |-> Binding]

\* CommandArg, with the declaration it was rendered from (from, idx, id) kept
\* beside the two fields of the code
CommandArg(Position, Args, from, idx, id) ==
    [Position |-> Position, Args |-> Args, from |-> from, idx |-> idx, id |-> id]

\* (faulty variant) the separate flag is never read
SeparateOfIgnored(b) == TRUE

\* separate := true; if b.Separate != nil { separate = *b.Separate }
SeparateOf(b) == b.Separate # "false"

\* ------------------------------------------------------- BuildCommandLine

\* the base command switch: [ok, toks, err]
BaseCommandTokens(bc) ==
    CASE bc.kind = "string" ->
            [ok |-> TRUE, toks |-> <<bc.s>>, err |-> NoErr]
      [] bc.kind = "slice" ->
            IF \A i \in 1..Len(bc.elems) : bc.elems[i].kind = "string"
            THEN [ok |-> TRUE, toks |-> [i \in 1..Len(bc.elems) |-> bc.elems[i].s],
                  err |-> NoErr]
            ELSE [ok |-> FALSE, toks |-> << >>,
                  err |-> CWLError("invalid base command element type", "")]
      [] OTHER ->
            [ok |-> FALSE, toks |-> << >>,
             err |-> CWLError("invalid base command type", "")]

\* (faulty variant) the prefix of an Argument that has a value is forgotten
RenderArgumentValueOnly(arg) ==
    IF arg.ValueFrom.kind = "string"
    THEN [ok |-> TRUE, Args |-> <<arg.ValueFrom.s>>]
    ELSE [ok |-> arg.Prefix # << >>, Args |-> <<arg.Prefix>>]

\* one iteration of the loop over tool.Arguments: [ok, Args]
RenderArgument(arg) ==
    IF arg.ValueFrom.kind = "string"
    THEN IF arg.Prefix # << >>
         THEN IF SeparateOf(arg)
              THEN [ok |-> TRUE, Args |-> <<arg.Prefix, arg.ValueFrom.s>>]
              ELSE [ok |-> TRUE, Args |-> <<arg.Prefix \o arg.ValueFrom.s>>]
         ELSE [ok |-> TRUE, Args |-> <<arg.ValueFrom.s>>]
    ELSE IF arg.Prefix # << >>
         THEN [ok |-> TRUE, Args |-> <<arg.Prefix>>]
         ELSE [ok |-> FALSE, Args |-> << >>]

\* (faulty variant) the declared default wins over the supplied value
ResolveInputDefaultFirst(id, param, ins) ==
    IF param.Default.kind # "nil" THEN [ok |-> TRUE, v |-> param.Default]
    ELSE IF id \in DOMAIN ins THEN [ok |-> TRUE, v |-> ins[id]]
    ELSE [ok |-> FALSE, v |-> NilV]

\* inputValue, ok := ctx.Inputs[inputID], then the default: [ok, v]
ResolveInput(id, param, ins) ==
    IF id \in DOMAIN ins THEN [ok |-> TRUE, v |-> ins[id]]
    ELSE IF param.Default.kind # "nil" THEN [ok |-> TRUE, v |-> param.Default]
    ELSE [ok |-> FALSE, v |-> NilV]

\* (faulty variant) any class marker passes for a File
IsFileAnyClass(v) == v.class.kind = "string"

\* class, ok := v["class"].(string); ok && class == "File"
IsFile(v) == v.class.kind = "string" /\ v.class.s = <<"F", "i", "l", "e">>

\* the type switch on inputValue: [ok, cmdValue, skipArg, err]
CmdValue(id, v) ==
    CASE v.kind = "string" ->
            [ok |-> TRUE, cmdValue |-> v.s, skipArg |-> FALSE, err |-> NoErr]
      [] v.kind = "bool" ->
            [ok |-> TRUE, cmdValue |-> << >>, skipArg |-> ~v.b, err |-> NoErr]
      [] v.kind = "float64" ->
            [ok |-> TRUE, cmdValue |-> FormatG(v.n), skipArg |-> FALSE, err |-> NoErr]
      [] v.kind = "int" ->
            [ok |-> TRUE, cmdValue |-> FormatD(v.n), skipArg |-> FALSE, err |-> NoErr]
      [] v.kind = "map" ->
            IF IsFile(v)
            THEN IF v.path.kind = "string"
                 THEN [ok |-> TRUE, cmdValue |-> v.path.s, skipArg |-> FALSE,
                       err |-> NoErr]
                 ELSE [ok |-> FALSE, cmdValue |-> << >>, skipArg |-> FALSE,
                       err |-> CWLError("File input missing path", id)]
            ELSE [ok |-> FALSE, cmdValue |-> << >>, skipArg |-> FALSE,
                  err |-> CWLError("unsupported input value type", id)]
      [] OTHER ->
            [ok |-> FALSE, cmdValue |-> << >>, skipArg |-> FALSE,
             err |-> CWLError("unsupported input value type", id)]

\* (faulty variant) no special case for a true boolean
InputArgsNoFlagCase(b, v, cmdValue) ==
    IF b.Prefix # << >>
    THEN IF b.Separate # "false" THEN <<b.Prefix, cmdValue>>
         ELSE <<b.Prefix \o cmdValue>>
    ELSE <<cmdValue>>

\* "Add the argument to the command line": the Args of the CommandArg appended
\* for a binding b, the resolved value v and its cmdValue
InputArgs(b, v, cmdValue) ==
    IF b.Prefix # << >>
    THEN IF cmdValue = << >> /\ v.kind = "bool" /\ v.b
         THEN <<b.Prefix>>
         ELSE IF SeparateOf(b)
              THEN <<b.Prefix, cmdValue>>
              ELSE <<b.Prefix \o cmdValue>>
    ELSE <<cmdValue>>

\* one iteration of the loop over tool.Inputs:
\* [kind \in {"skip", "frag", "fail"}, Args, err]
RenderInput(id, param, ins) ==
    IF param.Binding.nil
    THEN [kind |-> "skip", Args |-> << >>, err |-> NoErr]
    ELSE LET r == ResolveInput(id, param, ins)
             c == CmdValue(id, r.v)
         IN  IF ~r.ok
             THEN [kind |-> "fail", Args |-> << >>,
                   err |-> CWLError("missing required input", id)]
             ELSE IF ~c.ok
             THEN [kind |-> "fail", Args |-> << >>, err |-> c.err]
             ELSE IF c.skipArg
             THEN [kind |-> "skip", Args |-> << >>, err |-> NoErr]
             ELSE [kind |-> "frag",
                   Args |-> InputArgs(param.Binding, r.v, c.cmdValue),
                   err |-> NoErr]

\* sort.Slice(posArgs, less by Position).  For a slice of at most 12 elements
\* the library runs an insertion sort; every tool of this model renders fewer
\* fragments than that.  insertionSort: each element moves left while it is
\* less than its left neighbour.
RECURSIVE InsertLeft(_, _)
InsertLeft(sorted, x) ==
    IF sorted = << >> THEN <<x>>
    ELSE IF x.Position < sorted[Len(sorted)].Position
         THEN InsertLeft(SubSeq(sorted, 1, Len(sorted) - 1), x)
                  \o <<sorted[Len(sorted)]>>
         ELSE Append(sorted, x)

RECURSIVE SortSlice(_)
SortSlice(s) ==
    IF s = << >> THEN << >>
    ELSE InsertLeft(SortSlice(SubSeq(s, 1, Len(s) - 1)), s[Len(s)])

RECURSIVE Flatten(_)
Flatten(frags) ==
    IF frags = << >> THEN << >> ELSE frags[1].Args \o Flatten(Tail(frags))

\* (faulty variant) a failing return hands back the vector built so far
FailureWithPartial(partial, err) ==
    [cmdArgs |-> partial, err |-> err, posArgs |-> << >>]

\* a failing return: return nil, &CWLError{...}; the vector built so far
\* (partial) is dropped
Failure(partial, err) == [cmdArgs |-> << >>, err |-> err, posArgs |-> << >>]

\* BuildCommandLine for one enumeration order of the tool.Inputs map
\* (range over a Go map visits the keys in an unspecified order)
BuildCommandLine(t, ins, order) ==
    LET base == BaseCommandTokens(t.BaseCommand)
        args == t.Arguments
        ra == [i \in 1..Len(args) |-> RenderArgument(args[i])]
        ri == [k \in 1..Len(order) |-> RenderInput(order[k], t.Inputs[order[k]], ins)]
        fromArgs == [i \in 1..Len(args) |->
                        CommandArg(args[i].Position, ra[i].Args, "argument", i, "")]
        fromInputs == [k \in 1..Len(order) |->
                        CommandArg(t.Inputs[order[k]].Binding.Position, ri[k].Args,
                                   "input", k, order[k])]
        keptInputs == SelectSeq(fromInputs, LAMBDA a : ri[a.idx].kind = "frag")
        posArgs == SortSlice(fromArgs \o keptInputs)
    IN  IF ~base.ok THEN Failure(base.toks, base.err)
        ELSE IF \E i \in 1..Len(args) : ~ra[i].ok
        THEN Failure(base.toks, CWLError("unsupported argument value type", ""))
        ELSE IF \E k \in 1..Len(order) : ri[k].kind = "fail"
        THEN LET first == CHOOSE k \in 1..Len(order) :
                             /\ ri[k].kind = "fail"
                             /\ \A j \in 1..(k - 1) : ri[j].kind # "fail"
             IN  Failure(base.toks, ri[first].err)
        ELSE [cmdArgs |-> base.toks \o Flatten(posArgs), err |-> NoErr,
              posArgs |-> posArgs]

\* the orders in which range may visit the keys of a map
Enumerations(keys) ==
    {o \in [1..Cardinality(keys) -> keys] : \A k \in keys : \E i \in DOMAIN o : o[i] = k}

\* ------------------------------------------------------------------- tools

NoOutputs == [id \in {} |-> NilV]

Tool(BaseCommand, Arguments, Inputs) ==
    [BaseCommand |-> BaseCommand, Arguments |-> Arguments, Inputs |-> Inputs,
     Requirements |-> << >>, Stdin |-> << >>, Stdout |-> << >>, Stderr |-> << >>,
     SuccessCodes |-> << >>, Outputs |-> NoOutputs,
     CWLVersion |-> <<"v", "1">>, Class |-> "CommandLineTool"]

Positions == 0..MaxPos
Separates == {"nil", "true", "false"}
InputIdPool == <<"a", "b", "c", "d">>
NoInputs == [id \in {} |-> NilV]
NoParams == [id \in {} |-> CommandInputParameter(NilV, NilBinding)]

FileClass == Scalar("string", <<"F", "i", "l", "e">>)
FileV(path) == MapV(FileClass, Scalar("string", path))

\* the values an input may be given: every dynamic type the switch tells apart
InputValues ==
    {StrV(<<"t">>), StrV(<< >>), BoolV(TRUE), BoolV(FALSE), FloatV(25), FloatV(30),
     IntV(12), FileV(<<"f">>), MapV(FileClass, NoField),
     MapV(Scalar("string", <<"D", "i", "r">>), Scalar("string", <<"f">>)),
     SliceV(<<Scalar("string", <<"t">>)>>), NilV}

\* valueFrom of a static Argument: absent, a string, or a non-string literal
ArgumentValues == {NilV, StrV(<<"w">>), IntV(3)}

RichArguments ==
    {CommandLineBinding(p, x, sep, vf) :
        p \in Positions, x \in {<< >>, <<"-", "n">>}, sep \in Separates,
        vf \in ArgumentValues}

RichBindings ==
    {NilBinding} \cup
    {CommandLineBinding(p, x, sep, NilV) :
        p \in Positions, x \in {<< >>, <<"-", "v">>}, sep \in Separates}

\* one static Argument at most and one declared input "a", each of any shape
RichTools ==
    {Tool(StrV(<<"c">>), as, [id \in {"a"} |-> CommandInputParameter(d, b)]) :
        as \in {<< >>} \cup {<<a>> : a \in RichArguments},
        d \in {NilV, StrV(<<"d">>), BoolV(FALSE)}, b \in RichBindings}
RichInputs == {NoInputs} \cup {[id \in {"a"} |-> v] : v \in InputValues}

\* up to MaxArgs Arguments and MaxInputs inputs that differ in position only;
\* the i-th Argument renders the digit i, the input id renders its own name
SeqsUpTo(S, n) == UNION {[1..k -> S] : k \in 0..n}
OrderIds == {InputIdPool[i] : i \in 1..MaxInputs}
OrderTools ==
    {Tool(StrV(<<"c">>),
          [i \in 1..Len(ps) |-> CommandLineBinding(ps[i], << >>, "nil",
                                                   StrV(<<DigitChars[i + 1]>>))],
          [id \in OrderIds |->
              CommandInputParameter(NilV,
                  IF bs[id] = MaxPos + 1 THEN NilBinding
                  ELSE CommandLineBinding(bs[id], << >>, "nil", NilV))]) :
        ps \in SeqsUpTo(Positions, MaxArgs), bs \in [OrderIds -> 0..(MaxPos + 1)]}
OrderInputs == [id \in OrderIds |-> StrV(<<id>>)]

\* TestBuildCommandLine: grep with -n, invert, pattern and file
GrepTool ==
    Tool(StrV(<<"g", "r", "e", "p">>),
         <<CommandLineBinding(0, << >>, "nil", StrV(<<"-", "n">>))>>,
         [id \in {"pattern", "file", "invert"} |->
            CASE id = "pattern" ->
                    CommandInputParameter(NilV, CommandLineBinding(1, << >>, "nil", NilV))
              [] id = "file" ->
                    CommandInputParameter(NilV, CommandLineBinding(2, << >>, "nil", NilV))
              [] id = "invert" ->
                    CommandInputParameter(NilV,
                        CommandLineBinding(0, <<"-", "v">>, "nil", NilV))])
GrepInputs ==
    [id \in {"pattern", "file", "invert"} |->
        CASE id = "pattern" -> StrV(<<"t", "e", "s", "t">>)
          [] id = "file" -> FileV(<<"f", "i", "l", "e", ".", "t", "x", "t">>)
          [] id = "invert" -> BoolV(TRUE)]

\* base commands of every shape the switch tells apart
BaseCommands ==
    {StrV(<<"c">>), SliceV(<<Scalar("string", <<"c">>), Scalar("string", <<"s">>)>>),
     SliceV(<< >>), SliceV(<<Scalar("string", <<"c">>), Scalar("other", << >>)>>),
     NilV, IntV(1)}
BaseTools ==
    {Tool(bc, <<CommandLineBinding(0, <<"-", "n">>, "nil", NilV)>>,
          [id \in {"a"} |->
              CommandInputParameter(NilV, CommandLineBinding(1, << >>, "nil", NilV))]) :
        bc \in BaseCommands}

\* ------------------------------------------------- rendering, on its own

vars == <<tool, inputs, pc, calls, ret, prev, executor, execCtx, tempDirs, spawned,
          runRet, out, stages, dirFiles, wrapped, valid, parsed, live>>
execVars == <<executor, execCtx, tempDirs, spawned, runRet, out, stages, dirFiles,
              wrapped>>
parseVars == <<valid, parsed>>
callVars == <<live>>

\* NewExecutor()
DefaultMaxCores == 4
DefaultMaxRAM == 8192
NewExecutor ==
    [DockerEnabled |-> TRUE, SingularityEnabled |-> TRUE, MaxCores |-> DefaultMaxCores,
     MaxRAM |-> DefaultMaxRAM]

NilContextRecord ==
    [nil |-> TRUE, WorkingDir |-> << >>, TempDir |-> 0, OutputDir |-> << >>,
     EnvironmentVars |-> [name \in {} |-> << >>],
     Container |-> [nil |-> TRUE, Type |-> "", Image |-> << >>, Pull |-> FALSE,
                    Load |-> << >>, File |-> << >>, Import |-> << >>,
                    ImageID |-> << >>, OutputDir |-> << >>, Volumes |-> << >>,
                    EnvVars |-> << >>]]
NotReturned ==
    [result |-> [nil |-> TRUE, ExitCode |-> 0, OutputFiles |-> NoOutputs],
     err |-> NoErr]

NotCalled == [cmdArgs |-> << >>, err |-> NoErr, posArgs |-> << >>]

\* before ParseRequirement is called; a tool built in memory is not validated
NotParsed == [index |-> 0, class |-> "", err |-> NoErr]
NothingParsed == valid = NoErr /\ parsed = NotParsed

\* no Execute call of the concurrent study is running
NoCalls == live = << >>

InitRender ==
    /\ \/ tool \in RichTools /\ inputs \in RichInputs
       \/ tool \in OrderTools /\ inputs = OrderInputs
       \/ tool = GrepTool /\ inputs = GrepInputs
       \/ tool \in BaseTools /\ inputs \in {NoInputs, [id \in {"a"} |-> StrV(<<"t">>)]}
    /\ pc = "ready"
    /\ calls = 0
    /\ ret = NotCalled
    /\ prev = NotCalled
    /\ executor = NewExecutor
    /\ execCtx = NilContextRecord
    /\ tempDirs = {}
    /\ spawned = << >>
    /\ runRet = NotReturned
    /\ out = NotReturned
    /\ stages = << >>
    /\ dirFiles = {}
    /\ wrapped = << >>
    /\ NothingParsed
    /\ NoCalls

\* a call of BuildCommandLine(tool, ctx) with ctx.Inputs = inputs
CallBuildCommandLine ==
    /\ pc = "ready"
    /\ calls < 2
    /\ \E order \in Enumerations(DOMAIN tool.Inputs) :
          ret' = BuildCommandLine(tool, inputs, order)
    /\ prev' = ret
    /\ calls' = calls + 1
    /\ UNCHANGED <<tool, inputs, pc>>
    /\ UNCHANGED <<parseVars, callVars>>
    /\ UNCHANGED execVars

NextRender == CallBuildCommandLine

Spec == InitRender /\ [][NextRender]_vars

\* ------------------------------------------- claims about BuildCommandLine

Returned == calls >= 1
Rendered == calls >= 1 /\ ret.err = NoErr

\* the order in which the descriptor declares its inputs
DeclarationPool == <<"a", "b", "c", "d", "pattern", "file", "invert">>
DeclaredOrder(t) == SelectSeq(DeclarationPool, LAMBDA id : id \in DOMAIN t.Inputs)

\* the value a bound input is rendered from: the supplied one, else the default
Chosen(id) == IF id \in DOMAIN inputs THEN inputs[id] ELSE tool.Inputs[id].Default

\* the text of a non-boolean value
Text(v) ==
    CASE v.kind = "string" -> v.s
      [] v.kind = "float64" -> FormatG(v.n)
      [] v.kind = "int" -> FormatD(v.n)
      [] v.kind = "map" -> v.path.s
      [] OTHER -> << >>

IsFileLike(v) == v.kind = "map" /\ v.class = FileClass
Renderable(v) ==
    \/ v.kind \in {"string", "bool", "float64", "int"}
    \/ IsFileLike(v) /\ v.path.kind = "string"

\* the fragments of the last render that came from input id / from Argument i
FragsOfInput(id) == SelectSeq(ret.posArgs, LAMBDA a : a.from = "input" /\ a.id = id)
FragsOfArgument(i) == SelectSeq(ret.posArgs, LAMBDA a : a.from = "argument" /\ a.idx = i)

BoundIds == {id \in DOMAIN tool.Inputs : ~tool.Inputs[id].Binding.nil}
HasValue(id) == id \in DOMAIN inputs \/ tool.Inputs[id].Default.kind # "nil"

\* fragments in declaration order: the Arguments, then the inputs as declared
DeclaredFragments ==
    LET args == tool.Arguments
        ids == SelectSeq(DeclaredOrder(tool),
                         LAMBDA id : RenderInput(id, tool.Inputs[id], inputs).kind = "frag")
    IN  [i \in 1..Len(args) |->
            [Position |-> args[i].Position, Args |-> RenderArgument(args[i]).Args]]
        \o [k \in 1..Len(ids) |->
            [Position |-> tool.Inputs[ids[k]].Binding.Position,
             Args |-> RenderInput(ids[k], tool.Inputs[ids[k]], inputs).Args]]

\* a stable sort by position: position by position, each in declaration order
RECURSIVE ByPosition(_, _, _)
ByPosition(frags, p, last) ==
    IF p > last THEN << >>
    ELSE SelectSeq(frags, LAMBDA f : f.Position = p) \o ByPosition(frags, p + 1, last)

ExpectedVector ==
    LET frags == DeclaredFragments
        last == IF frags = << >> THEN 0
                ELSE CHOOSE m \in {frags[i].Position : i \in 1..Len(frags)} :
                        \A i \in 1..Len(frags) : frags[i].Position <= m
    IN  BaseCommandTokens(tool.BaseCommand).toks \o Flatten(ByPosition(frags, 0, last))

\* C1: a successful render returns the base-command tokens followed by the
\* fragments in ascending position, fragments of equal position in declaration
\* order (Arguments and inputs in one position space).
C1_DeclarationOrder == Rendered => ret.cmdArgs = ExpectedVector

\* C2: two calls of BuildCommandLine on the same tool and inputs return the
\* same thing: the same vector, or a failure both times.
C2_Deterministic ==
    calls = 2 => /\ ret.cmdArgs = prev.cmdArgs
                 /\ (ret.err = NoErr) <=> (prev.err = NoErr)

\* C3: a binding with a non-empty prefix and a non-boolean value renders as the
\* single token prefix+value when separate is false, and as the two tokens
\* prefix, value when separate is true or unset; for inputs and for Arguments.
C3_PrefixSeparate ==
    Rendered =>
      /\ \A id \in BoundIds :
            LET b == tool.Inputs[id].Binding
                v == Chosen(id)
            IN  (b.Prefix # << >> /\ v.kind # "bool") =>
                    /\ Len(FragsOfInput(id)) = 1
                    /\ FragsOfInput(id)[1].Args =
                          IF b.Separate = "false" THEN <<b.Prefix \o Text(v)>>
                          ELSE <<b.Prefix, Text(v)>>
      /\ \A i \in 1..Len(tool.Arguments) :
            LET a == tool.Arguments[i]
            IN  (a.Prefix # << >> /\ a.ValueFrom.kind = "string") =>
                    /\ Len(FragsOfArgument(i)) = 1
                    /\ FragsOfArgument(i)[1].Args =
                          IF a.Separate = "false" THEN <<a.Prefix \o a.ValueFrom.s>>
                          ELSE <<a.Prefix, a.ValueFrom.s>>

C3_Witness ==
    /\ Rendered
    /\ \E id \in BoundIds :
          /\ tool.Inputs[id].Binding.Prefix = <<"-", "v">>
          /\ tool.Inputs[id].Binding.Separate = "false"
          /\ Chosen(id) = FloatV(25)
          /\ ret.cmdArgs[Len(ret.cmdArgs)] = <<"-", "v", "2", ".", "5">>
    /\ \E i \in 1..Len(tool.Arguments) :
          /\ tool.Arguments[i].Prefix = <<"-", "n">>
          /\ tool.Arguments[i].Separate = "nil"
          /\ tool.Arguments[i].ValueFrom = StrV(<<"w">>)

\* C4: a boolean input bound with a non-empty prefix renders as the prefix
\* alone when true, whatever separate says, and as nothing when false.
C4_BooleanFlag ==
    Rendered =>
      \A id \in BoundIds :
         LET b == tool.Inputs[id].Binding
             v == Chosen(id)
         IN  (b.Prefix # << >> /\ v.kind = "bool") =>
                IF v.b THEN /\ Len(FragsOfInput(id)) = 1
                            /\ FragsOfInput(id)[1].Args = <<b.Prefix>>
                ELSE FragsOfInput(id) = << >>

C4_Witness ==
    /\ Rendered
    /\ tool = GrepTool
    /\ ret.cmdArgs = <<<<"g", "r", "e", "p">>, <<"-", "n">>, <<"-", "v">>,
                       <<"t", "e", "s", "t">>,
                       <<"f", "i", "l", "e", ".", "t", "x", "t">>>>

\* C5: a true boolean bound without a prefix contributes no token; the vector
\* holds no empty-string token on its account.
C5_NoEmptyToken ==
    Rendered =>
      \A id \in BoundIds :
         (tool.Inputs[id].Binding.Prefix = << >> /\ Chosen(id) = BoolV(TRUE)) =>
             Flatten(FragsOfInput(id)) = << >>

\* what the claims say a binding b renders for a value v it can render
ClaimedArgs(b, v) ==
    IF v.kind = "bool" THEN <<b.Prefix>>
    ELSE IF b.Prefix = << >> THEN <<Text(v)>>
    ELSE IF b.Separate = "false" THEN <<b.Prefix \o Text(v)>>
    ELSE <<b.Prefix, Text(v)>>

BaseOk ==
    \/ tool.BaseCommand.kind = "string"
    \/ /\ tool.BaseCommand.kind = "slice"
       /\ \A i \in 1..Len(tool.BaseCommand.elems) :
             tool.BaseCommand.elems[i].kind = "string"
ArgumentOk(a) == a.ValueFrom.kind = "string" \/ a.Prefix # << >>

\* nothing but input id can make the render fail
OnlyTrouble(id) ==
    /\ BaseOk
    /\ \A i \in 1..Len(tool.Arguments) : ArgumentOk(tool.Arguments[i])
    /\ \A other \in BoundIds \ {id} : HasValue(other) /\ Renderable(Chosen(other))

\* C6: a bound input renders from the supplied value when the id is in the
\* input map, else from the declared default; with neither the render fails
\* with an error naming the id.  An input without a binding is never required
\* and renders nothing.
C6_ValueResolution ==
    Returned =>
      \A id \in DOMAIN tool.Inputs :
         LET b == tool.Inputs[id].Binding
             v == Chosen(id)
         IN  IF b.nil
             THEN FragsOfInput(id) = << >> /\ ret.err.id # id
             ELSE IF ~HasValue(id)
             THEN /\ ret.err # NoErr
                  /\ OnlyTrouble(id) => ret.err = CWLError("missing required input", id)
             ELSE /\ ~Renderable(v) => ret.err # NoErr
                  /\ (Rendered /\ v = BoolV(FALSE)) => FragsOfInput(id) = << >>
                  /\ ( /\ Rendered
                       /\ v # BoolV(FALSE)
                       /\ ~(v = BoolV(TRUE) /\ b.Prefix = << >>) ) =>
                          /\ Len(FragsOfInput(id)) = 1
                          /\ FragsOfInput(id)[1].Args = ClaimedArgs(b, v)

C6_Witness ==
    /\ Rendered
    /\ "a" \in DOMAIN tool.Inputs
    /\ "a" \in DOMAIN inputs
    /\ inputs["a"] = StrV(<<"t">>)
    /\ tool.Inputs["a"].Default = StrV(<<"d">>)
    /\ ~tool.Inputs["a"].Binding.nil
    /\ tool.Arguments = << >>
    /\ ret.cmdArgs = <<<<"c">>, <<"t">>>>

C8_StaticArgument ==
    Returned =>
      \A i \in 1..Len(tool.Arguments) :
         LET a == tool.Arguments[i]
         IN  IF a.ValueFrom.kind = "string"
             THEN Rendered =>
                    /\ Len(FragsOfArgument(i)) = 1
                    /\ FragsOfArgument(i)[1].Args =
                          IF a.Prefix = << >> THEN <<a.ValueFrom.s>>
                          ELSE IF a.Separate = "false"
                               THEN <<a.Prefix \o a.ValueFrom.s>>
                               ELSE <<a.Prefix, a.ValueFrom.s>>
             ELSE IF a.Prefix # << >>
             THEN Rendered =>
                    /\ Len(FragsOfArgument(i)) = 1
                    /\ FragsOfArgument(i)[1].Args = <<a.Prefix>>
             ELSE /\ ret.err # NoErr
                  /\ BaseOk => ret.err = CWLError("unsupported argument value type", "")

C8_Witness ==
    /\ Returned
    /\ Len(tool.Arguments) = 1
    /\ tool.Arguments[1].ValueFrom = NilV
    /\ tool.Arguments[1].Prefix = << >>
    /\ ret.err = CWLError("unsupported argument value type", "")

\* =================================================================== Execute

\* ------------------------------------------------------- execution context

\* ContainerConfig; nil marks a nil *ContainerConfig
ContainerConfig(Type, Image, Pull, Load, File, Import, ImageID, OutputDir) ==
    [nil |-> FALSE, Type |-> Type, Image |-> Image, Pull |-> Pull, Load |-> Load,
     File |-> File, Import |-> Import, ImageID |-> ImageID, OutputDir |-> OutputDir,
     Volumes |-> << >>, EnvVars |-> << >>]
NilContainer ==
    [nil |-> TRUE, Type |-> "", Image |-> << >>, Pull |-> FALSE, Load |-> << >>,
     File |-> << >>, Import |-> << >>, ImageID |-> << >>, OutputDir |-> << >>,
     Volumes |-> << >>, EnvVars |-> << >>]

NoEnv == [name \in {} |-> << >>]

WorkingDir == <<"/", "w">>
\* filepath.Join(workingDir, "output")
OutputDirOf(wd) == wd \o <<"/", "o", "u", "t">>

\* the *ExecutionContext NewExecutionContext returns; TempDir is the number of
\* the directory os.MkdirTemp made
ExecutionContext(wd, tempDir) ==
    [nil |-> FALSE, WorkingDir |-> wd, TempDir |-> tempDir,
     OutputDir |-> OutputDirOf(wd), EnvironmentVars |-> NoEnv,
     Container |-> NilContainer]
NilContext == NilContextRecord

\* ------------------------------------------------------------ requirements

\* a number of a requirement record: absent ("nil"), a float64 held in tenths,
\* or an int
Num(kind, n) == [kind |-> kind, n |-> n]
NoNum == Num("nil", 0)

\* an item of envDef: a map with "name" and "value" entries, or something else
EnvDefItem(isMap, name, hasValue, value) ==
    [isMap |-> isMap, name |-> name, hasValue |-> hasValue, value |-> value]

\* a requirement record (map[string]interface{}).  class is the "class" entry
\* ([kind, name]); Pull .. OutputDirectory are the entries of the record's own
\* backend (dockerPull / singularityPull, ...), each a Scalar; envDef is
\* [kind, items]; coresMin and ramMin are Nums.
Requirement(class, Pull, Load, File, Import, ImageId, OutputDirectory, envDef, coresMin, ramMin) ==
    [class |-> class, Pull |-> Pull, Load |-> Load, File |-> File,
     Import |-> Import, ImageId |-> ImageId, OutputDirectory |-> OutputDirectory,
     envDef |-> envDef, coresMin |-> coresMin, ramMin |-> ramMin]

ClassOf(name) == [kind |-> "string", name |-> name]
NoClass == [kind |-> "nil", name |-> ""]
NoEnvDef == [kind |-> "nil", items |-> << >>]

\* x, ok := reqMap[key].(string); ok && x != ""
StringField(f) == IF f.kind = "string" THEN f.s ELSE << >>

\* int(f) of a float64 held in tenths: truncation toward zero
TruncTenths(t) == IF t >= 0 THEN t \div 10 ELSE -((-t) \div 10)

\* the redirections of a process: the file behind stdin and the files that
\* receive a copy of stdout and stderr (<< >>: none)
Redirection(stdin, stdout, stderr) == [stdin |-> stdin, stdout |-> stdout, stderr |-> stderr]
NoRedirection == Redirection(<< >>, << >>, << >>)

\* what the host makes of a process: [kind |-> "exit", code |-> c] (it ran and
\* ended with status c; c = -1 when a signal ended it) or [kind |-> "nostart"]
\* (the executable was not found or not started: no exit code).  cancelled
\* tells that the caller's context was done while the process ran:
\* exec.CommandContext then kills the process, and Run returns the
\* *exec.ExitError of a process ended by a signal, whose ExitCode() is -1.
Exit(c) == [kind |-> "exit", code |-> c, cancelled |-> FALSE]
NoStart == [kind |-> "nostart", code |-> 0, cancelled |-> FALSE]
Cancelled == [kind |-> "exit", code |-> -1, cancelled |-> TRUE]

\* a process the engine asks the host to run: its argument vector, the stage
\* that asked, what the host made of it, its working directory, the entries
\* appended to the inherited environment, and its redirections
Process(argv, stage, ended, dir, env, io) ==
    [argv |-> argv, stage |-> stage, ended |-> ended, dir |-> dir, env |-> env,
     io |-> io]
\* exec.Command(name, "--version").Run() of an availability check
Probe(argv, answer) ==
    Process(argv, "requirements",
            CASE answer = "ok" -> Exit(0) [] answer = "fail" -> Exit(1) [] OTHER -> NoStart,
            << >>, << >>, NoRedirection)

DockerBin == <<"d", "o", "c", "k", "e", "r">>
SingularityBin == <<"s", "i", "n", "g", "u", "l", "a", "r", "i", "t", "y">>
ApptainerBin == <<"a", "p", "p", "t", "a", "i", "n", "e", "r">>
VersionFlag == <<"-", "-", "v", "e", "r", "s", "i", "o", "n">>
DockerVersion == <<DockerBin, VersionFlag>>
SingularityVersion == <<SingularityBin, VersionFlag>>
ApptainerVersion == <<ApptainerBin, VersionFlag>>

\* how a probed executable answers: "ok" (exit 0), "fail" (started, exit # 0),
\* "missing" (not found, nothing started)
ProbeAnswers == {"ok", "fail", "missing"}

\* (faulty variant) a docker probe that does not answer ok is run once more
checkDockerAvailableRetry(host) ==
    [ok |-> host.docker = "ok",
     probes |-> IF host.docker = "ok" THEN <<Probe(DockerVersion, host.docker)>>
                ELSE <<Probe(DockerVersion, host.docker),
                       Probe(DockerVersion, host.docker)>>]

\* checkDockerAvailable: [ok, probes]
checkDockerAvailable(host) ==
    [ok |-> host.docker = "ok",
     probes |-> <<Probe(DockerVersion, host.docker)>>]

\* checkSingularityAvailable: singularity first, apptainer when it fails
checkSingularityAvailable(host) ==
    IF host.singularity = "ok"
    THEN [ok |-> TRUE, probes |-> <<Probe(SingularityVersion, host.singularity)>>]
    ELSE [ok |-> host.apptainer = "ok",
          probes |-> <<Probe(SingularityVersion, host.singularity),
                       Probe(ApptainerVersion, host.apptainer)>>]

\* the ContainerConfig a container requirement builds
ContainerOf(type, r) ==
    ContainerConfig(type, StringField(r.Pull), StringField(r.Pull) # << >>,
                    StringField(r.Load), StringField(r.File), StringField(r.Import),
                    StringField(r.ImageId), StringField(r.OutputDirectory))

NoImageSource(c) ==
    /\ c.Image = << >>
    /\ c.Load = << >>
    /\ c.File = << >>
    /\ c.Import = << >>
    /\ c.ImageID = << >>

\* the result of processing: the context as mutated, the probes run, the error
Processed(ctx, probes, err) == [ctx |-> ctx, probes |-> probes, err |-> err]

\* (faulty variant) the backend is probed before the executor's switch is read
ContainerRequirementProbeFirst(type, enabled, check, r, acc) ==
    IF ~check.ok
    THEN Processed(acc.ctx, acc.probes \o check.probes,
                   HostError("required but not available", type))
    ELSE IF ~enabled
    THEN Processed(acc.ctx, acc.probes \o check.probes,
                   CWLError("required but not enabled", type))
    ELSE IF NoImageSource(ContainerOf(type, r))
    THEN Processed(acc.ctx, acc.probes \o check.probes,
                   CWLError("must specify an image source", type))
    ELSE Processed([acc.ctx EXCEPT !.Container = ContainerOf(type, r)],
                   acc.probes \o check.probes, NoErr)

\* (faulty variant) the backend is probed before the image sources are looked at
ContainerRequirementProbeBeforeSource(type, enabled, check, r, acc) ==
    IF ~enabled
    THEN Processed(acc.ctx, acc.probes, CWLError("required but not enabled", type))
    ELSE IF ~check.ok
    THEN Processed(acc.ctx, acc.probes \o check.probes,
                   HostError("required but not available", type))
    ELSE IF NoImageSource(ContainerOf(type, r))
    THEN Processed(acc.ctx, acc.probes \o check.probes,
                   CWLError("must specify an image source", type))
    ELSE Processed([acc.ctx EXCEPT !.Container = ContainerOf(type, r)],
                   acc.probes \o check.probes, NoErr)

\* (faulty variant) a container configuration already in the context is kept
ContainerRequirementKeepFirst(type, enabled, check, r, acc) ==
    IF ~enabled
    THEN Processed(acc.ctx, acc.probes, CWLError("required but not enabled", type))
    ELSE IF NoImageSource(ContainerOf(type, r))
    THEN Processed(acc.ctx, acc.probes, CWLError("must specify an image source", type))
    ELSE IF ~check.ok
    THEN Processed(acc.ctx, acc.probes \o check.probes,
                   HostError("required but not available", type))
    ELSE Processed(IF acc.ctx.Container.nil
                   THEN [acc.ctx EXCEPT !.Container = ContainerOf(type, r)]
                   ELSE acc.ctx,
                   acc.probes \o check.probes, NoErr)

\* case "DockerRequirement" / "SingularityRequirement"
ContainerRequirement(type, enabled, check, r, acc) ==
    IF ~enabled
    THEN Processed(acc.ctx, acc.probes, CWLError("required but not enabled", type))
    ELSE IF NoImageSource(ContainerOf(type, r))
    THEN Processed(acc.ctx, acc.probes, CWLError("must specify an image source", type))
    ELSE IF ~check.ok
    THEN Processed(acc.ctx, acc.probes \o check.probes,
                   HostError("required but not available", type))
    ELSE Processed([acc.ctx EXCEPT !.Container = ContainerOf(type, r)],
                   acc.probes \o check.probes, NoErr)

\* (faulty variant) an entry does not overwrite a name the mapping already holds
RECURSIVE EnvDefFromFirstWins(_, _, _)
EnvDefFromFirstWins(items, i, acc) ==
    IF i > Len(items) THEN acc
    ELSE LET it == items[i]
         IN  IF ~it.isMap
             THEN Processed(acc.ctx, acc.probes, CWLError("envDef items must be objects", ""))
             ELSE IF it.name.kind # "string"
             THEN Processed(acc.ctx, acc.probes,
                            CWLError("envDef items must have a 'name' field", ""))
             ELSE IF ~it.hasValue
             THEN Processed(acc.ctx, acc.probes,
                            CWLError("envDef items must have a 'value' field", ""))
             ELSE IF it.value.kind # "string"
             THEN Processed(acc.ctx, acc.probes,
                            CWLError("unsupported environment variable value type",
                                     it.name.s))
             ELSE EnvDefFromFirstWins(items, i + 1,
                     Processed([acc.ctx EXCEPT !.EnvironmentVars =
                                   [n \in DOMAIN acc.ctx.EnvironmentVars \cup {it.name.s} |->
                                       IF n \in DOMAIN acc.ctx.EnvironmentVars
                                       THEN acc.ctx.EnvironmentVars[n]
                                       ELSE it.value.s]],
                               acc.probes, NoErr))

\* the loop over envDef, from item i on
RECURSIVE EnvDefFrom(_, _, _)
EnvDefFrom(items, i, acc) ==
    IF i > Len(items) THEN acc
    ELSE LET it == items[i]
         IN  IF ~it.isMap
             THEN Processed(acc.ctx, acc.probes, CWLError("envDef items must be objects", ""))
             ELSE IF it.name.kind # "string"
             THEN Processed(acc.ctx, acc.probes,
                            CWLError("envDef items must have a 'name' field", ""))
             ELSE IF ~it.hasValue
             THEN Processed(acc.ctx, acc.probes,
                            CWLError("envDef items must have a 'value' field", ""))
             ELSE IF it.value.kind # "string"
             THEN Processed(acc.ctx, acc.probes,
                            CWLError("unsupported environment variable value type",
                                     it.name.s))
             ELSE EnvDefFrom(items, i + 1,
                     Processed([acc.ctx EXCEPT !.EnvironmentVars =
                                   [n \in DOMAIN acc.ctx.EnvironmentVars \cup {it.name.s} |->
                                       IF n = it.name.s THEN it.value.s
                                       ELSE acc.ctx.EnvironmentVars[n]]],
                               acc.probes, NoErr))

\* case "ResourceRequirement"
ResourceRequirement(e, r, acc) ==
    IF r.coresMin.kind = "float64" /\ TruncTenths(r.coresMin.n) > e.MaxCores
    THEN Processed(acc.ctx, acc.probes, CWLError("required cores exceeds maximum", ""))
    ELSE IF r.ramMin.kind = "float64" /\ TruncTenths(r.ramMin.n) > e.MaxRAM
    THEN Processed(acc.ctx, acc.probes, CWLError("required RAM exceeds maximum", ""))
    ELSE acc

\* (faulty variant) a record of an unknown class is skipped
ProcessRequirementSkipUnknown(e, r, acc, host) ==
    IF r.class.kind # "string"
    THEN Processed(acc.ctx, acc.probes,
                   CWLError("requirement must have a 'class' field", ""))
    ELSE CASE r.class.name = "DockerRequirement" ->
                ContainerRequirement("docker", e.DockerEnabled,
                                     checkDockerAvailable(host), r, acc)
           [] r.class.name = "SingularityRequirement" ->
                ContainerRequirement("singularity", e.SingularityEnabled,
                                     checkSingularityAvailable(host), r, acc)
           [] r.class.name = "EnvVarRequirement" ->
                IF r.envDef.kind # "slice"
                THEN Processed(acc.ctx, acc.probes,
                               CWLError("EnvVarRequirement must have an 'envDef' field", ""))
                ELSE EnvDefFrom(r.envDef.items, 1, acc)
           [] r.class.name = "ResourceRequirement" ->
                ResourceRequirement(e, r, acc)
           [] OTHER -> acc

\* one iteration of the loop over tool.Requirements
ProcessRequirement(e, r, acc, host) ==
    IF r.class.kind # "string"
    THEN Processed(acc.ctx, acc.probes,
                   CWLError("requirement must have a 'class' field", ""))
    ELSE CASE r.class.name = "DockerRequirement" ->
                ContainerRequirement("docker", e.DockerEnabled,
                                     checkDockerAvailable(host), r, acc)
           [] r.class.name = "SingularityRequirement" ->
                ContainerRequirement("singularity", e.SingularityEnabled,
                                     checkSingularityAvailable(host), r, acc)
           [] r.class.name = "EnvVarRequirement" ->
                IF r.envDef.kind # "slice"
                THEN Processed(acc.ctx, acc.probes,
                               CWLError("EnvVarRequirement must have an 'envDef' field", ""))
                ELSE EnvDefFrom(r.envDef.items, 1, acc)
           [] r.class.name = "ResourceRequirement" ->
                ResourceRequirement(e, r, acc)
           [] OTHER ->
                Processed(acc.ctx, acc.probes,
                          CWLError("unsupported requirement class", r.class.name))

\* processRequirements: the records in order, returning at the first failure
RECURSIVE RequirementsFrom(_, _, _, _, _)
RequirementsFrom(e, reqs, i, acc, host) ==
    IF i > Len(reqs) THEN acc
    ELSE LET r == ProcessRequirement(e, reqs[i], acc, host)
         IN  IF r.err # NoErr THEN r ELSE RequirementsFrom(e, reqs, i + 1, r, host)

processRequirements(e, t, ctx, host) ==
    RequirementsFrom(e, t.Requirements, 1, Processed(ctx, << >>, NoErr), host)

\* ---------------------------------------------------- container commands

\* fmt.Sprintf("%s:%s", a, b) and fmt.Sprintf("%s=%s", a, b)
Colon(a, b) == a \o <<":">> \o b
Equals(a, b) == a \o <<"=">> \o b

\* strings.Join(parts, ",")
RECURSIVE JoinComma(_)
JoinComma(parts) ==
    IF parts = << >> THEN << >>
    ELSE IF Len(parts) = 1 THEN parts[1]
    ELSE parts[1] \o <<",">> \o JoinComma(Tail(parts))

\* the name=value entries of ctx.EnvironmentVars in the order range visits them
EnvEntries(ctx, order) ==
    [k \in 1..Len(order) |-> Equals(order[k], ctx.EnvironmentVars[order[k]])]

RECURSIVE Flagged(_, _)
Flagged(flag, items) ==
    IF items = << >> THEN << >> ELSE <<flag, items[1]>> \o Flagged(flag, Tail(items))

\* (faulty variant) the image reference is preferred to the explicit image id
ImageTokenReferenceFirst(c) == IF c.Image # << >> THEN c.Image ELSE c.ImageID

\* "Add image": the explicit image id, else the image reference
ImageToken(c) == IF c.ImageID # << >> THEN c.ImageID ELSE c.Image

buildDockerCommand(cmdArgs, ctx, order) ==
    <<DockerBin, <<"r", "u", "n">>, <<"-", "-", "r", "m">>>>
    \o <<<<"-", "v">>, Colon(ctx.WorkingDir, ctx.WorkingDir)>>
    \o <<<<"-", "v">>, Colon(ctx.OutputDir, ctx.OutputDir)>>
    \o Flagged(<<"-", "v">>, ctx.Container.Volumes)
    \o <<<<"-", "w">>, ctx.WorkingDir>>
    \o Flagged(<<"-", "e">>, EnvEntries(ctx, order))
    \o Flagged(<<"-", "e">>, ctx.Container.EnvVars)
    \o <<ImageToken(ctx.Container)>>
    \o cmdArgs

\* exec.LookPath("singularity") decides between singularity and apptainer
buildSingularityCommand(cmdArgs, ctx, order, host) ==
    <<IF host.singularity = "missing" THEN ApptainerBin ELSE SingularityBin,
      <<"e", "x", "e", "c">>>>
    \o <<<<"-", "-", "b", "i", "n", "d">>,
         JoinComma(<<Colon(ctx.WorkingDir, ctx.WorkingDir),
                     Colon(ctx.OutputDir, ctx.OutputDir)>> \o ctx.Container.Volumes)>>
    \o <<<<"-", "-", "p", "w", "d">>, ctx.WorkingDir>>
    \o Flagged(<<"-", "-", "e", "n", "v">>, EnvEntries(ctx, order))
    \o Flagged(<<"-", "-", "e", "n", "v">>, ctx.Container.EnvVars)
    \o <<ImageToken(ctx.Container)>>
    \o cmdArgs

\* --------------------------------------------------------------- runCommand

\* an *ExecuteResult; nil marks a nil pointer
ExecuteResult(ExitCode, OutputFiles) ==
    [nil |-> FALSE, ExitCode |-> ExitCode, OutputFiles |-> OutputFiles]
NilResult == NotReturned.result

Return(result, err) == [result |-> result, err |-> err]

\* the *exec.ExitError of a process that ended with a non-zero status
ExitError == [msg |-> "exit status", id |-> "", Err |-> "ExitError"]

InCodes(codes, c) == \E i \in 1..Len(codes) : codes[i] = c

\* the message of a launch that is no exit: runCommand's, or
\* runContainerCommand's when the tool runs in a container
RunFailed(contained) ==
    IF contained THEN "container command execution failed" ELSE "command execution failed"

\* (faulty variant) the container path does not consult the declared success
\* codes
ClassifyExitContainedIgnoringCodes(t, how, contained) ==
    IF how.kind = "exit"
    THEN Return(ExecuteResult(how.code, NoOutputs),
                IF how.code = 0 \/ (~contained /\ InCodes(t.SuccessCodes, how.code))
                THEN NoErr ELSE ExitError)
    ELSE Return(NilResult, HostError(RunFailed(contained), ""))

\* (faulty variant) the declared success codes are not consulted
ClassifyExitIgnoringCodes(t, how, contained) ==
    IF how.kind = "exit"
    THEN Return(ExecuteResult(how.code, NoOutputs),
                IF how.code = 0 THEN NoErr ELSE ExitError)
    ELSE Return(NilResult, HostError(RunFailed(contained), ""))

\* (faulty variant) a launch that yields no exit code is classified like an
\* exit with the initial exitCode, 0, against the declared success codes
ClassifyExitLaunchAsCode(t, how, contained) ==
    IF how.kind = "exit"
    THEN IF how.code = 0
         THEN Return(ExecuteResult(0, NoOutputs), NoErr)
         ELSE Return(ExecuteResult(how.code, NoOutputs),
                     IF InCodes(t.SuccessCodes, how.code) THEN NoErr ELSE ExitError)
    ELSE Return(ExecuteResult(0, NoOutputs),
                IF InCodes(t.SuccessCodes, 0) THEN NoErr
                ELSE HostError(RunFailed(contained), ""))

\* err := cmd.Run() and what follows it.  how is what the host made of the
\* process: exit 0 (Run returns nil), another exit (an *exec.ExitError), or no
\* start (an error that is no *exec.ExitError)
ClassifyExit(t, how, contained) ==
    IF how.kind = "exit"
    THEN IF how.code = 0
         THEN Return(ExecuteResult(0, NoOutputs), NoErr)
         ELSE Return(ExecuteResult(how.code, NoOutputs),
                     IF InCodes(t.SuccessCodes, how.code) THEN NoErr ELSE ExitError)
    ELSE Return(NilResult, HostError(RunFailed(contained), ""))

\* the files opened before the launch; opened tells which of them the host
\* let the engine open: [ok, err]
OpenRedirections(t, opened) ==
    IF t.Stdin # << >> /\ ~opened.stdin
    THEN [ok |-> FALSE, err |-> HostError("failed to open stdin file", "")]
    ELSE IF t.Stdout # << >> /\ ~opened.stdout
    THEN [ok |-> FALSE, err |-> HostError("failed to create stdout file", "")]
    ELSE IF t.Stderr # << >> /\ ~opened.stderr
    THEN [ok |-> FALSE, err |-> HostError("failed to create stderr file", "")]
    ELSE [ok |-> TRUE, err |-> NoErr]

\* the names a file of the output directory may have, in lexical order
FileNames == <<<<"o">>, <<"p">>>>
FileNameSet == {FileNames[i] : i \in 1..Len(FileNames)}

\* the files of the output directory that os.Create has made (or truncated)
\* for the redirections by the time runCommand launches or gives up: stdout's
\* once stdin is open, stderr's once stdout's is made
Created(t, opened) ==
    LET stdinOk == t.Stdin = << >> \/ opened.stdin
        stdoutOk == stdinOk /\ (t.Stdout = << >> \/ opened.stdout)
    IN  {f \in FileNameSet :
            \/ f = t.Stdout /\ stdinOk /\ opened.stdout
            \/ f = t.Stderr /\ stdoutOk /\ opened.stderr}

\* the vector handed to exec.CommandContext: cmdArgs itself, or cmdArgs wrapped
\* for the backend of ctx.Container
LaunchVector(cmdArgs, ctx, order, host) ==
    IF ctx.Container.nil THEN cmdArgs
    ELSE IF ctx.Container.Type = "docker" THEN buildDockerCommand(cmdArgs, ctx, order)
    ELSE buildSingularityCommand(cmdArgs, ctx, order, host)

\* runCommand (and runContainerCommand, which it calls when ctx.Container is
\* set): [ret, procs, made].  order is the order in which range visits
\* ctx.EnvironmentVars.
runCommand(t, cmdArgs, ctx, order, host, opened, how) ==
    IF cmdArgs = << >>
    THEN [ret |-> Return(NilResult, CWLError("empty command", "")), procs |-> << >>,
          made |-> {}]
    ELSE IF ~ctx.Container.nil /\ ctx.Container.Type \notin {"docker", "singularity"}
    THEN [ret |-> Return(NilResult, CWLError("unsupported container type", "")),
          procs |-> << >>, made |-> {}]
    ELSE IF ~OpenRedirections(t, opened).ok
    THEN [ret |-> Return(NilResult, OpenRedirections(t, opened).err), procs |-> << >>,
          made |-> Created(t, opened)]
    ELSE [ret |-> ClassifyExit(t, how, ~ctx.Container.nil),
          made |-> Created(t, opened),
          procs |-> <<Process(LaunchVector(cmdArgs, ctx, order, host), "run",
                              how, ctx.WorkingDir,
                              EnvEntries(ctx, order),
                              Redirection(t.Stdin,
                                  IF t.Stdout = << >> THEN << >>
                                  ELSE ctx.OutputDir \o <<"/">> \o t.Stdout,
                                  IF t.Stderr = << >> THEN << >>
                                  ELSE ctx.OutputDir \o <<"/">> \o t.Stderr))>>]

\* ------------------------------------------------------------ processOutputs

\* CommandOutputParameter with its *CommandOutputBinding (nil: none) and the
\* binding's Glob, an interface{}
CommandOutputParameter(nil, Glob) == [Binding |-> [nil |-> nil, Glob |-> Glob]]

\* filepath.Glob(filepath.Join(ctx.OutputDir, glob)) over an output directory
\* holding files: "[" is a malformed pattern, "*" matches every name, any
\* other pattern of the model is a literal name.  Matches come in lexical order.
Glob(ctx, files, glob) ==
    LET names == IF glob = <<"*">> THEN SelectSeq(FileNames, LAMBDA n : n \in files)
                 ELSE IF glob \in files THEN <<glob>> ELSE << >>
    IN  IF glob = <<"[">>
        THEN [ok |-> FALSE, matches |-> << >>]
        ELSE [ok |-> TRUE,
              matches |-> [i \in 1..Len(names) |-> ctx.OutputDir \o <<"/">> \o names[i]]]

\* (faulty variant) the loop does not stop at the first pattern that matches:
\* a later pattern that matches replaces the path
RECURSIVE GlobListFromLastMatch(_, _, _, _)
GlobListFromLastMatch(ctx, files, elems, i) ==
    IF i > Len(elems) THEN [kind |-> "none", path |-> << >>]
    ELSE LET later == GlobListFromLastMatch(ctx, files, elems, i + 1)
         IN  IF elems[i].kind # "string" THEN later
             ELSE LET g == Glob(ctx, files, elems[i].s)
                  IN  IF ~g.ok THEN [kind |-> "error", path |-> << >>]
                      ELSE IF later.kind # "none" THEN later
                      ELSE IF g.matches # << >>
                      THEN [kind |-> "found", path |-> g.matches[1]]
                      ELSE later

\* the loop over a list of patterns, from element i on:
\* [kind \in {"found", "none", "error"}, path]
RECURSIVE GlobListFrom(_, _, _, _)
GlobListFrom(ctx, files, elems, i) ==
    IF i > Len(elems) THEN [kind |-> "none", path |-> << >>]
    ELSE IF elems[i].kind # "string" THEN GlobListFrom(ctx, files, elems, i + 1)
    ELSE LET g == Glob(ctx, files, elems[i].s)
         IN  IF ~g.ok THEN [kind |-> "error", path |-> << >>]
             ELSE IF g.matches # << >> THEN [kind |-> "found", path |-> g.matches[1]]
             ELSE GlobListFrom(ctx, files, elems, i + 1)

\* one iteration of the loop over tool.Outputs:
\* [kind \in {"skip", "found", "none", "error"}, path, err]
ResolveOutput(id, param, ctx, files) ==
    IF param.Binding.nil
    THEN [kind |-> "skip", path |-> << >>, err |-> NoErr]
    ELSE LET glob == param.Binding.Glob
         IN  CASE glob.kind = "string" ->
                    LET g == Glob(ctx, files, glob.s)
                    IN  IF ~g.ok
                        THEN [kind |-> "error", path |-> << >>,
                              err |-> HostError("failed to expand glob pattern", id)]
                        ELSE IF g.matches # << >>
                        THEN [kind |-> "found", path |-> g.matches[1], err |-> NoErr]
                        ELSE [kind |-> "none", path |-> << >>, err |-> NoErr]
               [] glob.kind = "slice" ->
                    LET g == GlobListFrom(ctx, files, glob.elems, 1)
                    IN  [kind |-> g.kind, path |-> g.path,
                         err |-> IF g.kind = "error"
                                 THEN HostError("failed to expand glob pattern", id)
                                 ELSE NoErr]
               [] OTHER ->
                    [kind |-> "error", path |-> << >>,
                     err |-> CWLError("unsupported glob pattern type for output", id)]

\* processOutputs for one enumeration order of the tool.Outputs map:
\* [outputFiles, err]
processOutputs(t, ctx, files, order) ==
    LET ro == [k \in 1..Len(order) |-> ResolveOutput(order[k], t.Outputs[order[k]], ctx, files)]
        found == {order[k] : k \in {j \in 1..Len(order) : ro[j].kind = "found"}}
    IN  IF \E k \in 1..Len(order) : ro[k].kind = "error"
        THEN LET first == CHOOSE k \in 1..Len(order) :
                             /\ ro[k].kind = "error"
                             /\ \A j \in 1..(k - 1) : ro[j].kind # "error"
             IN  [outputFiles |-> NoOutputs, err |-> ro[first].err]
        ELSE [outputFiles |->
                [id \in found |->
                    ro[CHOOSE k \in 1..Len(order) : order[k] = id].path],
              err |-> NoErr]

\* ------------------------------------------------------------ tools to run

MaxExit == 2       \* a process exits with a status in 0..MaxExit, or is killed

Image == Scalar("string", <<"i", "m", "g">>)
ImageId == Scalar("string", <<"i", "d">>)
TarFile == Scalar("string", <<"t", "a", "r">>)
NoString == Scalar("nil", << >>)
EmptyString == Scalar("string", << >>)
NotAString == Scalar("other", << >>)

ContainerRecord(class, Pull, Load, ImageIdField) ==
    Requirement(ClassOf(class), Pull, Load, NoString, NoString, ImageIdField,
                NoString, NoEnvDef, NoNum, NoNum)
EnvVarRecord(items) ==
    Requirement(ClassOf("EnvVarRequirement"), NoString, NoString, NoString, NoString,
                NoString, NoString, [kind |-> "slice", items |-> items], NoNum, NoNum)
ResourceRecord(coresMin, ramMin) ==
    Requirement(ClassOf("ResourceRequirement"), NoString, NoString, NoString,
                NoString, NoString, NoString, NoEnvDef, coresMin, ramMin)
OtherRecord(class) ==
    Requirement(class, NoString, NoString, NoString, NoString, NoString, NoString,
                NoEnvDef, NoNum, NoNum)

EnvA == EnvDefItem(TRUE, Scalar("string", <<"A">>), TRUE, Scalar("string", <<"x">>))
EnvA2 == EnvDefItem(TRUE, Scalar("string", <<"A">>), TRUE, Scalar("string", <<"y">>))
EnvB == EnvDefItem(TRUE, Scalar("string", <<"B">>), TRUE, Scalar("string", <<"z">>))
EnvExpr == EnvDefItem(TRUE, Scalar("string", <<"B">>), TRUE, Scalar("other", << >>))

DockerPull == ContainerRecord("DockerRequirement", Image, NoString, NoString)
SingularityPull == ContainerRecord("SingularityRequirement", Image, NoString, NoString)

\* requirement lists: none, each class alone, and lists whose later records
\* meet the effects of earlier ones
RequirementLists ==
    {<< >>,
     <<DockerPull>>,
     <<ContainerRecord("DockerRequirement", NoString, NoString, NoString)>>,
     <<ContainerRecord("DockerRequirement", NoString, TarFile, NoString)>>,
     <<ContainerRecord("DockerRequirement", Image, NoString, ImageId)>>,
     <<SingularityPull>>,
     <<ContainerRecord("SingularityRequirement", NoString, NoString, NoString)>>,
     <<DockerPull, ContainerRecord("SingularityRequirement", NoString, NoString, ImageId)>>,
     <<EnvVarRecord(<<EnvA>>)>>,
     <<EnvVarRecord(<<EnvA, EnvB>>), EnvVarRecord(<<EnvA2>>)>>,
     <<EnvVarRecord(<<EnvA, EnvExpr>>)>>,
     <<OtherRecord(ClassOf("EnvVarRequirement"))>>,
     <<ResourceRecord(Num("float64", 20), Num("float64", 10240))>>,
     <<ResourceRecord(Num("float64", 50), NoNum)>>,
     <<ResourceRecord(Num("float64", 45), NoNum)>>,
     <<ResourceRecord(Num("int", 8), Num("float64", 81930))>>,
     <<OtherRecord(ClassOf("InlineJavascriptRequirement"))>>,
     <<OtherRecord(NoClass)>>,
     <<EnvVarRecord(<<EnvA>>), OtherRecord(ClassOf("ShellCommandRequirement")),
       EnvVarRecord(<<EnvB>>)>>,
     <<EnvVarRecord(<<EnvA>>), DockerPull>>,
     <<DockerPull, OtherRecord(NoClass), EnvVarRecord(<<EnvB>>)>>,
     <<EnvVarRecord(<<EnvExpr>>), OtherRecord(ClassOf("ShellCommandRequirement"))>>,
     <<ContainerRecord("DockerRequirement", EmptyString, NoString, NotAString)>>,
     <<Requirement(ClassOf("SingularityRequirement"), NoString, NoString, NoString,
                   NoString, NoString, Image, NoEnvDef, NoNum, NoNum)>>,
     <<SingularityPull, ContainerRecord("DockerRequirement", NoString, EmptyString, NoString)>>,
     <<SingularityPull, ContainerRecord("DockerRequirement", NoString, TarFile, NoString)>>,
     <<EnvVarRecord(<<EnvA, EnvA2, EnvB>>)>>,
     <<EnvVarRecord(<<EnvB, EnvA>>), EnvVarRecord(<<EnvA2, EnvExpr, EnvA>>)>>,
     <<ResourceRecord(Num("int", 8), NoNum)>>,
     <<ResourceRecord(Num("float64", 40), Num("float64", 81920))>>,
     <<ResourceRecord(NoNum, Num("float64", 81930))>>}

Executors ==
    {NewExecutor,
     [NewExecutor EXCEPT !.DockerEnabled = FALSE],
     [NewExecutor EXCEPT !.SingularityEnabled = FALSE],
     [NewExecutor EXCEPT !.MaxCores = 1]}

\* every set of success codes within 0..MaxExit, as an ascending list, and
\* two lists that declare -1
RECURSIVE Ascending(_, _)
Ascending(codes, c) ==
    IF c > MaxExit THEN << >>
    ELSE (IF c \in codes THEN <<c>> ELSE << >>) \o Ascending(codes, c + 1)
SuccessCodeLists ==
    {Ascending(codes, 0) : codes \in SUBSET (0..MaxExit)} \cup {<<-1>>, <<0, -1>>}

StringGlob(g) == CommandOutputParameter(FALSE, StrV(g))
ListGlob(elems) == CommandOutputParameter(FALSE, SliceV(elems))
OutputMaps ==
    {NoOutputs,
     [id \in {"out"} |-> StringGlob(<<"o">>)],
     [id \in {"out"} |-> CommandOutputParameter(TRUE, NilV)],
     [id \in {"out"} |-> CommandOutputParameter(FALSE, NilV)],
     [id \in {"out"} |->
        CommandOutputParameter(FALSE,
            SliceV(<<Scalar("string", <<"p">>), Scalar("other", << >>),
                     Scalar("string", <<"*">>)>>))],
     [id \in {"out", "log"} |->
        IF id = "out" THEN StringGlob(<<"*">>) ELSE StringGlob(<<"[">>)],
     [id \in {"out"} |-> ListGlob(<<Scalar("string", <<"p">>), Scalar("string", <<"o">>)>>)],
     [id \in {"out", "log"} |->
        IF id = "out"
        THEN ListGlob(<<Scalar("string", <<"*">>), Scalar("string", <<"p">>)>>)
        ELSE CommandOutputParameter(TRUE, NilV)],
     [id \in {"out"} |-> ListGlob(<< >>)]}

Stdio == {Redirection(<< >>, << >>, << >>), Redirection(<< >>, <<"o">>, << >>),
          Redirection(<<"i">>, <<"o">>, <<"e">>)}

\* TestExecute: echo with one positional input
EchoTool ==
    Tool(StrV(<<"e", "c", "h", "o">>), << >>,
         [id \in {"message"} |->
            CommandInputParameter(NilV, CommandLineBinding(1, << >>, "nil", NilV))])
EchoInputs == [id \in {"message"} |-> StrV(<<"H", "i">>)]

\* descriptors that do not render (or render an empty vector), with EchoTool
RenderCases ==
    {<<EchoTool, EchoInputs>>,
     <<EchoTool, NoInputs>>,
     <<EchoTool, [id \in {"message"} |-> SliceV(<< >>)]>>,
     <<[EchoTool EXCEPT !.BaseCommand = NilV], EchoInputs>>,
     <<[EchoTool EXCEPT !.BaseCommand =
            SliceV(<<Scalar("string", <<"e">>), Scalar("other", << >>)>>)], EchoInputs>>,
     <<[EchoTool EXCEPT !.BaseCommand = SliceV(<< >>),
                        !.Inputs = NoParams], NoInputs>>,
     <<[EchoTool EXCEPT !.Arguments =
            <<CommandLineBinding(0, << >>, "nil", NilV)>>], EchoInputs>>}

\* ------------------------------------------------------------------ Execute

InitExecute ==
    /\ \/ \* exit classification: success codes, outputs and redirections
          /\ \E reqs \in {<< >>, <<DockerPull>>, <<SingularityPull>>},
                codes \in SuccessCodeLists, outs \in OutputMaps, io \in Stdio :
                tool = [EchoTool EXCEPT !.Requirements = reqs, !.SuccessCodes = codes,
                                        !.Outputs = outs, !.Stdin = io.stdin,
                                        !.Stdout = io.stdout, !.Stderr = io.stderr]
          /\ inputs = EchoInputs
          /\ executor = NewExecutor
       \/ \* requirements, under every executor
          /\ \E reqs \in RequirementLists : tool = [EchoTool EXCEPT !.Requirements = reqs]
          /\ inputs = EchoInputs
          /\ executor \in Executors
       \/ \* rendering, after requirements that run a probe or set the environment
          /\ \E rc \in RenderCases,
                reqs \in {<< >>, <<DockerPull>>, <<EnvVarRecord(<<EnvA>>)>>} :
                /\ tool = [rc[1] EXCEPT !.Requirements = reqs]
                /\ inputs = rc[2]
          /\ executor = NewExecutor
    /\ pc = "start"
    /\ calls = 0
    /\ ret = NotCalled
    /\ prev = NotCalled
    /\ execCtx = NilContext
    /\ tempDirs = {}
    /\ spawned = << >>
    /\ runRet = NotReturned
    /\ out = NotReturned
    /\ stages = << >>
    /\ dirFiles = {}
    /\ wrapped = << >>
    /\ NothingParsed
    /\ NoCalls

\* ExecutionContext.Cleanup, deferred by Execute: os.RemoveAll(ctx.TempDir)
Cleanup(ctx, dirs) == IF ctx.TempDir # 0 THEN dirs \ {ctx.TempDir} ELSE dirs

\* (faulty variant) the error of requirement processing is dropped and the
\* call goes on to rendering
ExecuteReturnsUnlessRequirements(result, err, ctx) ==
    IF pc = "requirements" /\ err # NoErr
    THEN pc' = "render" /\ UNCHANGED <<out, tempDirs>>
    ELSE /\ pc' = "done"
         /\ out' = Return(result, err)
         /\ tempDirs' = Cleanup(ctx, tempDirs)

\* Execute returns (result, err); the deferred Cleanup runs
ExecuteReturns(result, err, ctx) ==
    /\ pc' = "done"
    /\ out' = Return(result, err)
    /\ tempDirs' = Cleanup(ctx, tempDirs)

\* execCtx, err := NewExecutionContext(""): os.Getwd, os.MkdirTemp and
\* os.MkdirAll may each fail on the host
CreateContext ==
    /\ pc = "start"
    /\ stages' = Append(stages, "context")
    /\ \E host \in {"ok", "getwd fails", "mkdirtemp fails", "mkdirall fails"} :
          CASE host = "ok" ->
                  /\ execCtx' = ExecutionContext(WorkingDir, 1)
                  /\ tempDirs' = tempDirs \cup {1}
                  /\ pc' = "requirements"
                  /\ UNCHANGED out
            [] host = "mkdirall fails" ->
                  /\ tempDirs' = tempDirs \cup {1}
                  /\ pc' = "done"
                  /\ out' = Return(NilResult,
                                   HostError("failed to create output directory", ""))
                  /\ UNCHANGED execCtx
            [] OTHER ->
                  /\ pc' = "done"
                  /\ out' = Return(NilResult, HostError(host, ""))
                  /\ UNCHANGED <<execCtx, tempDirs>>
    /\ UNCHANGED <<parseVars, callVars>>
    /\ UNCHANGED <<tool, inputs, calls, ret, prev, executor, spawned, runRet, dirFiles,
                   wrapped>>

Hosts == [docker : ProbeAnswers, singularity : ProbeAnswers, apptainer : ProbeAnswers]

\* e.processRequirements(tool, execCtx)
ProcessRequirements ==
    /\ pc = "requirements"
    /\ stages' = Append(stages, "requirements")
    /\ \E host \in Hosts :
          LET r == processRequirements(executor, tool, execCtx, host)
          IN  /\ execCtx' = r.ctx
              /\ spawned' = spawned \o r.probes
              /\ IF r.err # NoErr
                 THEN ExecuteReturns(NilResult, r.err, r.ctx)
                 ELSE pc' = "render" /\ UNCHANGED <<out, tempDirs>>
    /\ UNCHANGED <<parseVars, callVars>>
    /\ UNCHANGED <<tool, inputs, calls, ret, prev, executor, runRet, dirFiles, wrapped>>

\* e.BuildCommandLine(tool, execCtx)
Render ==
    /\ pc = "render"
    /\ stages' = Append(stages, "render")
    /\ \E order \in Enumerations(DOMAIN tool.Inputs) :
          LET r == BuildCommandLine(tool, inputs, order)
          IN  /\ ret' = r
              /\ IF r.err # NoErr
                 THEN ExecuteReturns(NilResult, r.err, execCtx)
                 ELSE pc' = "run" /\ UNCHANGED <<out, tempDirs>>
    /\ calls' = calls + 1
    /\ UNCHANGED <<parseVars, callVars>>
    /\ UNCHANGED <<tool, inputs, prev, executor, execCtx, spawned, runRet, dirFiles,
                   wrapped>>

\* the hosts a run can meet, told apart by what exec.LookPath("singularity")
\* finds (which only a singularity run asks), and the ways the opening of the
\* redirection files can go, told apart for the files the tool names
RunHosts(ctx) ==
    {h \in Hosts :
        /\ h.docker = "ok"
        /\ h.apptainer = "ok"
        /\ (ctx.Container.nil \/ ctx.Container.Type # "singularity") => h.singularity = "ok"}
Openings(t) ==
    {o \in [stdin : BOOLEAN, stdout : BOOLEAN, stderr : BOOLEAN] :
        /\ t.Stdin = << >> => o.stdin
        /\ t.Stdout = << >> => o.stdout
        /\ t.Stderr = << >> => o.stderr}

RunOutcomes == {Exit(c) : c \in (-1)..MaxExit} \cup {NoStart, Cancelled}

\* e.runCommand(ctx, tool, cmdArgs, execCtx)
RunCommand ==
    /\ pc = "run"
    /\ stages' = Append(stages, "run")
    /\ \E order \in Enumerations(DOMAIN execCtx.EnvironmentVars),
          host \in RunHosts(execCtx),
          opened \in Openings(tool),
          how \in RunOutcomes :
          LET r == runCommand(tool, ret.cmdArgs, execCtx, order, host, opened, how)
          IN  /\ runRet' = r.ret
              /\ spawned' = spawned \o r.procs
              /\ IF r.procs # << >>
                 THEN \E files \in SUBSET FileNameSet :
                         /\ r.made \subseteq files
                         /\ dirFiles' = files
                 ELSE dirFiles' = r.made
              /\ IF r.ret.err # NoErr
                 THEN ExecuteReturns(NilResult, r.ret.err, execCtx)
                 ELSE pc' = "outputs" /\ UNCHANGED <<out, tempDirs>>
    /\ UNCHANGED <<parseVars, callVars>>
    /\ UNCHANGED <<tool, inputs, calls, ret, prev, executor, execCtx, wrapped>>

\* e.processOutputs(tool, execCtx, result), over the files the output directory
\* holds after the run
ProcessOutputs ==
    /\ pc = "outputs"
    /\ stages' = Append(stages, "outputs")
    /\ \E order \in Enumerations(DOMAIN tool.Outputs) :
          LET r == processOutputs(tool, execCtx, dirFiles, order)
          IN  IF r.err # NoErr
              THEN ExecuteReturns(NilResult, r.err, execCtx)
              ELSE ExecuteReturns([runRet.result EXCEPT !.OutputFiles = r.outputFiles],
                                  NoErr, execCtx)
    /\ UNCHANGED <<parseVars, callVars>>
    /\ UNCHANGED <<tool, inputs, calls, ret, prev, executor, execCtx, spawned, runRet,
                   dirFiles, wrapped>>

NextExecute ==
    \/ CreateContext
    \/ ProcessRequirements
    \/ Render
    \/ RunCommand
    \/ ProcessOutputs

SpecExecute == InitExecute /\ [][NextExecute]_vars

\* ------------------------------------------- container commands on their own

MaxVolumes == 2    \* the extra bind specs of a ContainerConfig

ExtraVolumes == {<<"/", "d", ":", "/", "d">>, <<"/", "r", ":", "/", "r", ":", "r", "o">>}
ContainerEnv == {<< >>, <<<<"K", "=", "v">>>>}
ContextEnv ==
    {NoEnv, [n \in {<<"A">>} |-> <<"x">>],
     [n \in {<<"A">>, <<"B">>} |-> IF n = <<"A">> THEN <<"x">> ELSE <<"z">>]}
Vectors ==
    {<<<<"e", "c", "h", "o">>>>, <<<<"e", "c", "h", "o">>, <<"H", "i">>>>,
     <<<<"l", "s">>, <<"-", "v">>, <<"/", "d", ":", "/", "d">>>>}

\* contexts as requirement processing can leave them, and with the Volumes and
\* EnvVars a caller of the builders can set
WrapContexts ==
    {[ExecutionContext(WorkingDir, 1) EXCEPT
          !.EnvironmentVars = env,
          !.Container =
              [ContainerConfig(type, image, image # << >>, << >>, << >>, << >>, id, << >>)
                  EXCEPT !.Volumes = vols, !.EnvVars = cenv]] :
        type \in {"docker", "singularity"}, image \in {<< >>, Image.s},
        id \in {<< >>, ImageId.s}, vols \in SeqsUpTo(ExtraVolumes, MaxVolumes),
        cenv \in ContainerEnv, env \in ContextEnv}

InitWrap ==
    /\ tool = EchoTool
    /\ inputs = EchoInputs
    /\ pc = "wrap"
    /\ calls = 1
    /\ \E v \in Vectors : ret = [NotCalled EXCEPT !.cmdArgs = v]
    /\ prev = NotCalled
    /\ executor = NewExecutor
    /\ execCtx \in WrapContexts
    /\ tempDirs = {1}
    /\ spawned = << >>
    /\ runRet = NotReturned
    /\ out = NotReturned
    /\ stages = << >>
    /\ dirFiles = {}
    /\ wrapped = << >>
    /\ NothingParsed
    /\ NoCalls

\* case "docker": containerCmd = e.buildDockerCommand(cmdArgs, execCtx)
BuildDockerCommand ==
    /\ pc = "wrap"
    /\ execCtx.Container.Type = "docker"
    /\ \E order \in Enumerations(DOMAIN execCtx.EnvironmentVars) :
          wrapped' = buildDockerCommand(ret.cmdArgs, execCtx, order)
    /\ pc' = "wrapped"
    /\ UNCHANGED <<parseVars, callVars>>
    /\ UNCHANGED <<tool, inputs, calls, ret, prev, executor, execCtx, tempDirs, spawned,
                   runRet, out, stages, dirFiles>>

\* case "singularity": containerCmd = e.buildSingularityCommand(cmdArgs, execCtx)
BuildSingularityCommand ==
    /\ pc = "wrap"
    /\ execCtx.Container.Type = "singularity"
    /\ \E order \in Enumerations(DOMAIN execCtx.EnvironmentVars),
          host \in RunHosts(execCtx) :
          wrapped' = buildSingularityCommand(ret.cmdArgs, execCtx, order, host)
    /\ pc' = "wrapped"
    /\ UNCHANGED <<parseVars, callVars>>
    /\ UNCHANGED <<tool, inputs, calls, ret, prev, executor, execCtx, tempDirs, spawned,
                   runRet, out, stages, dirFiles>>

NextWrap ==
    \/ BuildDockerCommand
    \/ BuildSingularityCommand

SpecWrap == InitWrap /\ [][NextWrap]_vars

\* ---------------------------------------------------- claims about Execute

Returns == pc = "done"
Entered(stage) == \E i \in 1..Len(stages) : stages[i] = stage

\* the tool's process ran and ended with exit status c
ToolExited(c) ==
    \E i \in 1..Len(spawned) : spawned[i].stage = "run" /\ spawned[i].ended = Exit(c)

\* C9: a failing BuildCommandLine returns no argument vector, and Execute then
\* returns that error and no result without launching a process: nothing is
\* started after the requirement stage and the run stage is never entered.
C9_RenderFailure ==
    (calls >= 1 /\ ret.err # NoErr) =>
       /\ ret.cmdArgs = << >>
       /\ Returns
       /\ out = Return(NilResult, ret.err)
       /\ ~Entered("run")
       /\ \A i \in 1..Len(spawned) : spawned[i].stage = "requirements"

C9_Witness ==
    /\ Returns
    /\ ret.err = CWLError("missing required input", "message")
    /\ out.err = ret.err
    /\ Len(spawned) = 1
    /\ spawned[1].argv = DockerVersion

OutputErrors == {"failed to expand glob pattern", "unsupported glob pattern type for output"}

\* C10: when the tool's process exits with a non-zero code c of the declared
\* success codes, runCommand returns a result with ExitCode c and no error,
\* output resolution runs on it, and the result Execute returns has ExitCode c;
\* the only error Execute can still return is one of output resolution itself.
C10_SuccessCode ==
    \A c \in 1..MaxExit :
       (ToolExited(c) /\ InCodes(tool.SuccessCodes, c)) =>
          /\ runRet = Return(ExecuteResult(c, NoOutputs), NoErr)
          /\ pc \in {"outputs", "done"}
          /\ Returns =>
                /\ stages[Len(stages)] = "outputs"
                /\ IF out.err = NoErr
                   THEN ~out.result.nil /\ out.result.ExitCode = c
                   ELSE out.err.msg \in OutputErrors

C10_Witness ==
    /\ Returns
    /\ tool.SuccessCodes = <<0, 2>>
    /\ ToolExited(2)
    /\ out.err = NoErr
    /\ ~out.result.nil
    /\ out.result.ExitCode = 2
    /\ "out" \in DOMAIN out.result.OutputFiles

\* the last stage Execute entered is output resolution, and it failed
OutputsFailed ==
    /\ Returns
    /\ Entered("outputs")
    /\ out.err # NoErr

\* C11: whenever the tool's process ended with an exit code c, the result
\* Execute hands back reports c, whether c was classified as success or as
\* failure (a failure of output resolution aside).
C11_LiteralExitCode ==
    \A c \in 0..MaxExit :
       (Returns /\ ToolExited(c) /\ ~OutputsFailed) =>
          /\ ~out.result.nil
          /\ out.result.ExitCode = c

\* the tool's process could not be started: the host gave no exit code
ToolNotStarted ==
    \E i \in 1..Len(spawned) : spawned[i].stage = "run" /\ spawned[i].ended = NoStart

\* C12: a launch that yields no exit code makes Execute return an error and no
\* result, whatever the declared success codes; output resolution is never
\* entered, so no outputs are resolved.
C12_LaunchFailureFatal ==
    ToolNotStarted =>
       /\ Returns
       /\ runRet.result.nil
       /\ runRet.err = HostError(RunFailed(~execCtx.Container.nil), "")
       /\ out = Return(NilResult, runRet.err)
       /\ ~Entered("outputs")

C12_Witness ==
    /\ ToolNotStarted
    /\ Returns
    /\ Len(tool.SuccessCodes) = MaxExit + 1
    /\ tool.Outputs # NoOutputs
    /\ out.err.msg = "command execution failed"

\* C13: when Execute has returned, every temporary directory made for its
\* execution context has been removed, on every exit path.
C13_TempDirRemoved ==
    Returns => tempDirs = {}

\* the backend a requirement record asks for ("": none)
BackendOf(r) ==
    IF r.class.kind # "string" THEN ""
    ELSE IF r.class.name = "DockerRequirement" THEN "docker"
    ELSE IF r.class.name = "SingularityRequirement" THEN "singularity"
    ELSE ""
EnabledOn(e, type) ==
    IF type = "docker" THEN e.DockerEnabled ELSE e.SingularityEnabled
\* record i asks for a backend the executor has switched off
Disabled(i) ==
    /\ BackendOf(tool.Requirements[i]) # ""
    /\ ~EnabledOn(executor, BackendOf(tool.Requirements[i]))
ProbesOf(type) ==
    IF type = "docker" THEN {DockerVersion} ELSE {SingularityVersion, ApptainerVersion}

RecognizedClasses ==
    {"DockerRequirement", "SingularityRequirement", "EnvVarRequirement",
     "ResourceRequirement"}
Unrecognized(r) == r.class.kind # "string" \/ r.class.name \notin RecognizedClasses
ClassError(r) ==
    IF r.class.kind # "string" THEN CWLError("requirement must have a 'class' field", "")
    ELSE CWLError("unsupported requirement class", r.class.name)

\* the context Execute creates, before any requirement has been processed
FreshContext == ExecutionContext(WorkingDir, 1)

Populated(f) == f.kind = "string" /\ f.s # << >>
\* a container record none of whose five image-source fields is populated
Sourceless(r) ==
    /\ BackendOf(r) # ""
    /\ ~Populated(r.Pull)
    /\ ~Populated(r.Load)
    /\ ~Populated(r.File)
    /\ ~Populated(r.Import)
    /\ ~Populated(r.ImageId)

\* C16: a container record without any image source, for a backend that is
\* switched on, makes requirement processing fail with the "must specify an
\* image source" error of that backend (unless an earlier record has failed
\* already); the record stores no ContainerConfig and runs no probe: the
\* context and the probes are those of the records before it, so a sourceless
\* first record leaves the context without a container and nothing started.
C16_NoImageSource ==
    \A i \in 1..Len(tool.Requirements) :
       (/\ Entered("requirements")
        /\ Sourceless(tool.Requirements[i])
        /\ EnabledOn(executor, BackendOf(tool.Requirements[i]))
        /\ \A k \in 1..(i - 1) : ~Sourceless(tool.Requirements[k])) =>
          /\ Returns
          /\ out.result.nil
          /\ ~Entered("render")
          /\ \E host \in Hosts :
                LET before == RequirementsFrom(executor,
                                   SubSeq(tool.Requirements, 1, i - 1), 1,
                                   Processed(FreshContext, << >>, NoErr), host)
                IN  /\ execCtx = before.ctx
                    /\ spawned = before.probes
                    /\ out.err = IF before.err # NoErr THEN before.err
                                 ELSE CWLError("must specify an image source",
                                               BackendOf(tool.Requirements[i]))
          /\ i = 1 => execCtx.Container.nil /\ spawned = << >>

C16_Witness ==
    /\ Returns
    /\ executor.DockerEnabled
    /\ tool.Requirements =
          <<ContainerRecord("DockerRequirement", EmptyString, NoString, NotAString)>>
    /\ out = Return(NilResult, CWLError("must specify an image source", "docker"))
    /\ execCtx.Container.nil
    /\ spawned = << >>

\* the envDef entries of the EnvVarRequirement records of reqs, in order
RECURSIVE EnvDefEntries(_)
EnvDefEntries(reqs) ==
    IF reqs = << >> THEN << >>
    ELSE (IF reqs[1].class = ClassOf("EnvVarRequirement") /\ reqs[1].envDef.kind = "slice"
          THEN reqs[1].envDef.items ELSE << >>) \o EnvDefEntries(Tail(reqs))

\* the mapping that gives each name the value of the last of the entries with
\* that name
LastWins(entries) ==
    [n \in {entries[k].name.s : k \in 1..Len(entries)} |->
        LET last == CHOOSE k \in 1..Len(entries) :
                       /\ entries[k].name.s = n
                       /\ \A j \in (k + 1)..Len(entries) : entries[j].name.s # n
        IN  entries[last].value.s]

Literal(entry) == entry.value.kind = "string"
OnlyEnvVarRecords ==
    \A i \in 1..Len(tool.Requirements) :
       /\ tool.Requirements[i].class = ClassOf("EnvVarRequirement")
       /\ tool.Requirements[i].envDef.kind = "slice"

\* C17: once requirement processing has succeeded, the environment mapping
\* gives each name the value of the last envDef entry with that name, across
\* and within records; and when the records are all EnvVarRequirements and
\* entry j is the first whose value is no literal string, processing fails
\* with an error naming that entry's variable and the mapping is the one of
\* the entries before j.
C17_EnvLastWins ==
    LET entries == EnvDefEntries(tool.Requirements)
    IN  /\ Entered("render") \/ pc = "render" =>
              execCtx.EnvironmentVars = LastWins(entries)
        /\ \A j \in 1..Len(entries) :
              (/\ Entered("requirements")
               /\ OnlyEnvVarRecords
               /\ ~Literal(entries[j])
               /\ \A k \in 1..(j - 1) : Literal(entries[k])) =>
                 /\ Returns
                 /\ out = Return(NilResult,
                                 CWLError("unsupported environment variable value type",
                                          entries[j].name.s))
                 /\ execCtx.EnvironmentVars = LastWins(SubSeq(entries, 1, j - 1))

C17_Witness ==
    /\ Returns
    /\ out.err = NoErr
    /\ tool.Requirements = <<EnvVarRecord(<<EnvA, EnvB>>), EnvVarRecord(<<EnvA2>>)>>
    /\ execCtx.EnvironmentVars[<<"A">>] = <<"y">>
    /\ execCtx.EnvironmentVars[<<"B">>] = <<"z">>
    /\ spawned[1].env \in {<<<<"A", "=", "y">>, <<"B", "=", "z">>>>,
                           <<<<"B", "=", "z">>, <<"A", "=", "y">>>>}

\* a number of a requirement record is present and greater than max (a
\* float64 is held in tenths)
Exceeds(num, max) ==
    \/ num.kind = "float64" /\ num.n > 10 * max
    \/ num.kind = "int" /\ num.n > max
OverCeiling(e, r) == Exceeds(r.coresMin, e.MaxCores) \/ Exceeds(r.ramMin, e.MaxRAM)
OnlyResourceRecords ==
    /\ tool.Requirements # << >>
    /\ \A i \in 1..Len(tool.Requirements) :
          tool.Requirements[i].class = ClassOf("ResourceRequirement")

\* C18: for a requirement list of ResourceRequirement records, requirement
\* processing fails when some record's coresMin exceeds MaxCores or its ramMin
\* exceeds MaxRAM, succeeds when every present value is within its ceiling,
\* and leaves the execution context as it was created.
C18_ResourceCeilings ==
    (Entered("requirements") /\ OnlyResourceRecords) =>
       /\ execCtx = FreshContext
       /\ IF \E i \in 1..Len(tool.Requirements) :
                OverCeiling(executor, tool.Requirements[i])
          THEN Returns /\ out.result.nil /\ out.err # NoErr /\ ~Entered("render")
          ELSE Entered("render") \/ pc = "render"

\* the glob patterns of a binding whose glob is a literal string or a list of
\* literal strings, in order
IsLiteralList(glob) ==
    glob.kind = "slice" /\ \A i \in 1..Len(glob.elems) : glob.elems[i].kind = "string"
PatternsOf(glob) ==
    IF glob.kind = "string" THEN <<glob.s>>
    ELSE [i \in 1..Len(glob.elems) |-> glob.elems[i].s]
Malformed(pattern) == pattern = <<"[">>
\* the names in the output directory a pattern matches, and the first of them
\* in the order of the directory's listing
NamesMatching(pattern) == {f \in dirFiles : pattern = <<"*">> \/ pattern = f}
FirstName(names) ==
    FileNames[CHOOSE i \in 1..Len(FileNames) :
                 /\ FileNames[i] \in names
                 /\ \A j \in 1..(i - 1) : FileNames[j] \notin names]
\* an output that resolution can settle: no binding, or well-formed patterns
Resolvable(param) ==
    \/ param.Binding.nil
    \/ /\ param.Binding.Glob.kind = "string" \/ IsLiteralList(param.Binding.Glob)
       /\ \A i \in 1..Len(PatternsOf(param.Binding.Glob)) :
             ~Malformed(PatternsOf(param.Binding.Glob)[i])
HasMatch(param) ==
    /\ ~param.Binding.nil
    /\ \E i \in 1..Len(PatternsOf(param.Binding.Glob)) :
          NamesMatching(PatternsOf(param.Binding.Glob)[i]) # {}
FirstMatch(param) ==
    LET patterns == PatternsOf(param.Binding.Glob)
        first == CHOOSE i \in 1..Len(patterns) :
                    /\ NamesMatching(patterns[i]) # {}
                    /\ \A j \in 1..(i - 1) : NamesMatching(patterns[j]) = {}
    IN  execCtx.OutputDir \o <<"/">> \o FirstName(NamesMatching(patterns[first]))

BadGlob(param) ==
    /\ ~param.Binding.nil
    /\ param.Binding.Glob.kind # "string"
    /\ ~IsLiteralList(param.Binding.Glob)

\* C20: when output resolution runs on a tool with an output whose glob is
\* neither a literal string nor a list of literal strings only, Execute
\* returns an error and no result.
C20_BadGlobFails ==
    (Returns /\ Entered("outputs")
        /\ \E id \in DOMAIN tool.Outputs : BadGlob(tool.Outputs[id])) =>
       /\ out.err # NoErr
       /\ out.result.nil

\* the caller's context was done while the tool's process ran
ToolCancelled ==
    \E i \in 1..Len(spawned) : spawned[i].stage = "run" /\ spawned[i].ended.cancelled

\* C21: when the caller's context is done while the tool's process runs, the
\* process is ended and Execute returns a failure and no result, whatever the
\* declared success codes.
C21_CancellationFails ==
    ToolCancelled =>
       /\ Returns
       /\ out.err # NoErr
       /\ out.result.nil

StageOrder == <<"context", "requirements", "render", "run", "outputs">>
\* requirement processing of the tool fails whatever the host answers
RequirementsMustFail ==
    \A host \in Hosts :
       processRequirements(executor, tool, FreshContext, host).err # NoErr

\* C22: the stages of an Execute call are entered in the order requirement
\* processing, rendering, launch, output resolution (after the creation of the
\* context), each only after the one before it returned no error; a stage
\* that fails is the last one entered, and Execute then returns an error and
\* a nil result.
C22_StageOrder ==
    /\ Len(stages) <= Len(StageOrder)
    /\ stages = SubSeq(StageOrder, 1, Len(stages))
    /\ RequirementsMustFail => ~Entered("render")
    /\ Entered("run") => calls >= 1 /\ ret.err = NoErr
    /\ Entered("outputs") => runRet.err = NoErr /\ ~runRet.result.nil
    /\ (calls >= 1 /\ ret.err # NoErr) => Returns /\ stages[Len(stages)] = "render"
    /\ runRet.err # NoErr => Returns /\ stages[Len(stages)] = "run"
    /\ Returns => /\ out.err # NoErr => out.result.nil
                  /\ out.err = NoErr => stages = StageOrder /\ ~out.result.nil
                  /\ Len(stages) < Len(StageOrder) => out.err # NoErr

C22_Witness ==
    /\ Returns
    /\ stages = <<"context", "requirements", "render", "run">>
    /\ Len(spawned) = 2
    /\ spawned[1].stage = "requirements"
    /\ spawned[2].stage = "run"
    /\ out.err = ExitError
    /\ out.result.nil

\* ----------------------------------------- claims about container commands

Wrapped == pc = "wrapped"
\* host path mapped to the identical path
Mount(dir) == dir \o <<":">> \o dir
\* where the image token stands in the wrapped vector
ImageAt == Len(wrapped) - Len(ret.cmdArgs)
VolumeFlag == <<"-", "v">>
BindFlag == <<"-", "-", "b", "i", "n", "d">>
\* docker: position k (before the image token) holds a -v flag with spec
MountsAt(k, spec) ==
    /\ k \in 1..(ImageAt - 2)
    /\ wrapped[k] = VolumeFlag
    /\ wrapped[k + 1] = spec
RECURSIVE CommaEach(_)
CommaEach(specs) ==
    IF specs = << >> THEN << >> ELSE <<",">> \o specs[1] \o CommaEach(Tail(specs))

\* C23: the vector a container command builder returns for v ends with v, the
\* token before v is the image id when one is set and the image reference
\* otherwise, and the working directory and the output directory are mounted
\* on their own paths ahead of every extra bind spec: as -v flags that come
\* before the -v flags of the extras (docker), or as the leading entries of
\* the --bind list (singularity).
C23_WrappedVector ==
    Wrapped =>
       LET v == ret.cmdArgs
           c == execCtx.Container
           n == Len(wrapped)
       IN  /\ ImageAt >= 1
           /\ SubSeq(wrapped, ImageAt + 1, n) = v
           /\ wrapped[ImageAt] = IF c.ImageID # << >> THEN c.ImageID ELSE c.Image
           /\ c.Type = "docker" =>
                 \E i, j \in 1..(ImageAt - 2) :
                    /\ MountsAt(i, Mount(execCtx.WorkingDir))
                    /\ MountsAt(j, Mount(execCtx.OutputDir))
                    /\ \A k \in 1..Len(c.Volumes) :
                          \E m \in 1..(ImageAt - 2) :
                             /\ MountsAt(m, c.Volumes[k])
                             /\ m > i
                             /\ m > j
                             /\ \A l \in 1..(k - 1) :
                                   \E before \in 1..(m - 1) : MountsAt(before, c.Volumes[l])
           /\ c.Type = "singularity" =>
                 \E k \in 1..(ImageAt - 2) :
                    /\ wrapped[k] = BindFlag
                    /\ wrapped[k + 1] =
                          Mount(execCtx.WorkingDir) \o <<",">> \o Mount(execCtx.OutputDir)
                          \o CommaEach(c.Volumes)

C23_Witness ==
    /\ Wrapped
    /\ execCtx.Container.Type = "docker"
    /\ execCtx.Container.ImageID = ImageId.s
    /\ execCtx.Container.Image = Image.s
    /\ Len(execCtx.Container.Volumes) = 2
    /\ ret.cmdArgs = <<<<"l", "s">>, <<"-", "v">>, <<"/", "d", ":", "/", "d">>>>
    /\ wrapped[ImageAt] = ImageId.s

\* ------------------------------------------------------------- the parser

InvalidCWL(msg, id) == [msg |-> msg, id |-> id, Err |-> "ErrInvalidCWL"]

\* Parser.validateCommandLineTool, on a decoded descriptor (ParseFile never
\* hands it a nil pointer)
validateCommandLineTool(t) ==
    IF t.CWLVersion = << >> THEN InvalidCWL("cwlVersion is required", "")
    ELSE IF t.Class # "CommandLineTool"
    THEN InvalidCWL("class must be 'CommandLineTool'", "")
    ELSE IF t.BaseCommand.kind = "nil" THEN InvalidCWL("baseCommand is required", "")
    ELSE CASE t.BaseCommand.kind = "string" -> NoErr
           [] t.BaseCommand.kind = "slice" ->
                IF \A i \in 1..Len(t.BaseCommand.elems) :
                      t.BaseCommand.elems[i].kind = "string"
                THEN NoErr
                ELSE InvalidCWL("baseCommand[%d] must be a string", "")
           [] OTHER -> InvalidCWL("baseCommand must be a string or array of strings", "")

\* the loop of ParseRequirement over envDef, from item i on: the error of the
\* first item that is not a map, has no string name or has no value
RECURSIVE ParseEnvDefFrom(_, _)
ParseEnvDefFrom(items, i) ==
    IF i > Len(items) THEN NoErr
    ELSE IF ~items[i].isMap THEN InvalidCWL("envDef items must be objects", "")
    ELSE IF items[i].name.kind # "string"
    THEN InvalidCWL("envDef items must have a 'name' field", "")
    ELSE IF ~items[i].hasValue
    THEN InvalidCWL("envDef items must have a 'value' field", "")
    ELSE ParseEnvDefFrom(items, i + 1)

\* ParseRequirement(reqMap): the class of the Requirement it returns ("" for
\* nil) and the error
ParseRequirement(r) ==
    IF r.class.kind # "string"
    THEN [class |-> "", err |-> InvalidCWL("requirement must have a 'class' field", "")]
    ELSE CASE r.class.name = "DockerRequirement" ->
                [class |-> r.class.name, err |-> NoErr]
           [] r.class.name = "EnvVarRequirement" ->
                IF r.envDef.kind # "slice"
                THEN [class |-> "",
                      err |-> InvalidCWL("EnvVarRequirement must have an 'envDef' field", "")]
                ELSE LET err == ParseEnvDefFrom(r.envDef.items, 1)
                     IN  [class |-> IF err = NoErr THEN r.class.name ELSE "", err |-> err]
           [] r.class.name = "ResourceRequirement" ->
                [class |-> r.class.name, err |-> NoErr]
           [] OTHER ->
                [class |-> "",
                 err |-> InvalidCWL("unsupported requirement class", r.class.name)]

\* decoded descriptors: every cwlVersion / class / baseCommand the validation
\* tells apart, with and without arguments and inputs
DescriptorCommands == BaseCommands \cup {StrV(<< >>)}
BareTools == {Tool(bc, << >>, NoInputs) : bc \in DescriptorCommands}
ParsedRequirementLists ==
    {<<DockerPull, SingularityPull>>,
     <<EnvVarRecord(<<EnvA>>), ResourceRecord(Num("int", 2), NoNum)>>,
     <<OtherRecord(ClassOf("InlineJavascriptRequirement")), OtherRecord(NoClass)>>}
Descriptors ==
    {[t EXCEPT !.CWLVersion = v, !.Class = c, !.Requirements = reqs] :
        t \in BaseTools \cup BareTools, v \in {<< >>, <<"v", "1">>},
        c \in {"CommandLineTool", "Workflow", ""}, reqs \in ParsedRequirementLists}

InitParse ==
    /\ tool \in Descriptors
    /\ inputs = NoInputs
    /\ pc = "decoded"
    /\ calls = 0
    /\ ret = NotCalled
    /\ prev = NotCalled
    /\ executor = NewExecutor
    /\ execCtx = NilContextRecord
    /\ tempDirs = {}
    /\ spawned = << >>
    /\ runRet = NotReturned
    /\ out = NotReturned
    /\ stages = << >>
    /\ dirFiles = {}
    /\ wrapped = << >>
    /\ NothingParsed
    /\ NoCalls

\* ParseFile: p.validateCommandLineTool(tool); the tool is returned only when
\* there is no error
ValidateCommandLineTool ==
    /\ pc = "decoded"
    /\ valid' = validateCommandLineTool(tool)
    /\ pc' = IF validateCommandLineTool(tool) = NoErr THEN "ready" ELSE "rejected"
    /\ UNCHANGED <<tool, inputs, calls, ret, prev, parsed>>
    /\ UNCHANGED <<execVars, callVars>>

\* ParseRequirement(tool.Requirements[i]), called on any record of the tool
CallParseRequirement ==
    /\ pc = "ready"
    /\ \E i \in DOMAIN tool.Requirements :
          /\ i > parsed.index
          /\ parsed' = [index |-> i,
                        class |-> ParseRequirement(tool.Requirements[i]).class,
                        err |-> ParseRequirement(tool.Requirements[i]).err]
    /\ UNCHANGED <<tool, inputs, pc, calls, ret, prev, valid>>
    /\ UNCHANGED <<execVars, callVars>>

NextParse ==
    \/ ValidateCommandLineTool
    \/ CallBuildCommandLine
    \/ CallParseRequirement

SpecParse == InitParse /\ [][NextParse]_vars

\* the validation has accepted the tool
Accepted == pc = "ready" /\ valid = NoErr

\* a base command that is a non-empty string or a non-empty list of strings
NonEmptyBaseCommand(bc) ==
    \/ bc.kind = "string" /\ bc.s # << >>
    \/ /\ bc.kind = "slice"
       /\ bc.elems # << >>
       /\ \A i \in 1..Len(bc.elems) : bc.elems[i].kind = "string"

BaseCommandShapeErrors ==
    {"invalid base command element type", "invalid base command type"}

\* C24: a descriptor the validation accepts has a non-empty cwlVersion, the class
\* CommandLineTool and a non-empty base command that is a string or a list of
\* strings; one without cwlVersion, of another class or without a base command
\* is rejected; and BuildCommandLine on an accepted descriptor never fails on
\* the shape of the base command and never returns an empty vector.
C24_ValidatedDescriptor ==
    /\ Accepted =>
          /\ tool.CWLVersion # << >>
          /\ tool.Class = "CommandLineTool"
          /\ NonEmptyBaseCommand(tool.BaseCommand)
          /\ calls > 0 =>
                /\ ret.err.msg \notin BaseCommandShapeErrors
                /\ ret.err = NoErr => ret.cmdArgs # << >>
    /\ (/\ pc # "decoded"
        /\ \/ tool.CWLVersion = << >>
           \/ tool.Class # "CommandLineTool"
           \/ tool.BaseCommand.kind = "nil") => pc = "rejected" /\ valid # NoErr

\* the part of C24 the validation does establish: version, class, and a base
\* command whose shape BuildCommandLine accepts
C24_ValidatedShape ==
    /\ Accepted =>
          /\ tool.CWLVersion # << >>
          /\ tool.Class = "CommandLineTool"
          /\ BaseCommandTokens(tool.BaseCommand).ok
          /\ calls > 0 => ret.err.msg \notin BaseCommandShapeErrors
    /\ (/\ pc # "decoded"
        /\ \/ tool.CWLVersion = << >>
           \/ tool.Class # "CommandLineTool"
           \/ tool.BaseCommand.kind = "nil") => pc = "rejected" /\ valid # NoErr

\* an accepted descriptor whose base command is the empty list has been rendered
\* to the empty vector
C24_EmptyVector ==
    Accepted /\ calls > 0 /\ tool.BaseCommand = SliceV(<< >>) /\ ret.err = NoErr
    /\ ret.cmdArgs = << >>

Unsupported(err) == err.msg = "unsupported requirement class"
NoClassField(err) == err.msg = "requirement must have a 'class' field"

\* what processRequirements says of the one record ParseRequirement was called on
ProcessedAlone(host) ==
    processRequirements(executor, [tool EXCEPT !.Requirements = <<tool.Requirements[parsed.index]>>],
                        FreshContext, host).err

\* C30: ParseRequirement rejects the class of a record as unsupported exactly
\* when processRequirements rejects it as unsupported, and both reject a record
\* without a string class.
C30_SameClasses ==
    parsed.index > 0 =>
       \A host \in Hosts :
          /\ Unsupported(parsed.err) <=> Unsupported(ProcessedAlone(host))
          /\ tool.Requirements[parsed.index].class.kind # "string" =>
                NoClassField(parsed.err) /\ NoClassField(ProcessedAlone(host))

\* ParseRequirement has refused a SingularityRequirement as unsupported
C30_SingularityRefused ==
    /\ parsed.index > 0
    /\ tool.Requirements[parsed.index].class = ClassOf("SingularityRequirement")
    /\ Unsupported(parsed.err)

\* ------------------------------------------- concurrent calls of Execute

MaxCalls == 2
MaxDirs == 3
Callers == 1..MaxCalls
DirNames == 1..MaxDirs

\* (faulty variant) the directory is named without looking at what exists
MkdirTempAnyName(existing) == DirNames

\* os.MkdirTemp("", "cwlgo-"): the names it may create; it retries until
\* os.Mkdir succeeds, so never a name that exists
MkdirTemp(existing) == DirNames \ existing

Call(at, ctx) == [pc |-> at, ctx |-> ctx]

InitCalls ==
    /\ tool = EchoTool
    /\ inputs = EchoInputs
    /\ pc = "calls"
    /\ calls = 0
    /\ ret = NotCalled
    /\ prev = NotCalled
    /\ executor \in Executors
    /\ execCtx = NilContextRecord
    /\ tempDirs \in SUBSET {MaxDirs}
    /\ spawned = << >>
    /\ runRet = NotReturned
    /\ out = NotReturned
    /\ stages = << >>
    /\ dirFiles = {}
    /\ wrapped = << >>
    /\ NothingParsed
    /\ live = [c \in Callers |-> Call("start", NilContextRecord)]

\* call c: execCtx, err := NewExecutionContext(""); defer execCtx.Cleanup().
\* When os.MkdirAll fails the directory made by os.MkdirTemp stays and the call
\* returns without a context.
BeginCall(c) ==
    /\ pc = "calls"
    /\ live[c].pc = "start"
    /\ \/ \E d \in MkdirTemp(tempDirs) :
             /\ tempDirs' = tempDirs \cup {d}
             /\ \/ live' = [live EXCEPT ![c] = Call("running", ExecutionContext(WorkingDir, d))]
                \/ live' = [live EXCEPT ![c] = Call("done", NilContextRecord)]
       \/ /\ live' = [live EXCEPT ![c] = Call("done", NilContextRecord)]
          /\ UNCHANGED tempDirs
    /\ UNCHANGED <<tool, inputs, pc, calls, ret, prev, executor, execCtx, spawned,
                   runRet, out, stages, dirFiles, wrapped, parseVars>>

\* call c: processRequirements, BuildCommandLine, runCommand and
\* processOutputs; the tool runs in the output directory under the working
\* directory, which the calls share, and nothing is written to a temporary
\* directory
RunCall(c) ==
    /\ pc = "calls"
    /\ live[c].pc = "running"
    /\ \E made \in SUBSET FileNameSet : dirFiles' = dirFiles \cup made
    /\ live' = [live EXCEPT ![c].pc = "returning"]
    /\ UNCHANGED <<tool, inputs, pc, calls, ret, prev, executor, execCtx, tempDirs,
                   spawned, runRet, out, stages, wrapped, parseVars>>

\* call c returns: the deferred execCtx.Cleanup() runs
EndCall(c) ==
    /\ pc = "calls"
    /\ live[c].pc = "returning"
    /\ tempDirs' = Cleanup(live[c].ctx, tempDirs)
    /\ live' = [live EXCEPT ![c].pc = "done"]
    /\ UNCHANGED <<tool, inputs, pc, calls, ret, prev, executor, execCtx, spawned,
                   runRet, out, stages, dirFiles, wrapped, parseVars>>

NextCalls ==
    \/ \E c \in Callers : BeginCall(c)
    \/ \E c \in Callers : RunCall(c)
    \/ \E c \in Callers : EndCall(c)

SpecCalls == InitCalls /\ [][NextCalls]_vars

\* call c holds a context whose temporary directory it has not yet cleaned up
Live(c) == live[c].pc \in {"running", "returning"}
TempDirOf(c) == live[c].ctx.TempDir

\* the live calls have temporary directories that exist and differ pairwise
OwnTempDirs ==
    \A c \in DOMAIN live :
       Live(c) =>
          /\ TempDirOf(c) \in tempDirs
          /\ \A o \in DOMAIN live : (o # c /\ Live(o)) => TempDirOf(o) # TempDirOf(c)

\* a step in which call c ends leaves the directory of every other live call
CleanupIsolated ==
    \A c \in DOMAIN live :
       (live[c].pc = "returning" /\ live'[c].pc = "done") =>
          \A o \in DOMAIN live : (o # c /\ Live(o)) => TempDirOf(o) \in tempDirs'

\* C25: concurrent Execute calls on one Executor each have a temporary directory
\* of their own, distinct from that of every other live call; the cleanup of one
\* call never removes the directory of another; and Execute never changes the
\* configuration fields of the Executor.
C25_OwnTempDir ==
    /\ []OwnTempDirs
    /\ [][CleanupIsolated /\ executor' = executor]_vars

\* one call has cleaned up its directory and another is live, its directory in place
C25_Witness ==
    \E c, o \in DOMAIN live :
       /\ live[c].pc = "done" /\ live[c].ctx.TempDir # 0
       /\ Live(o)
       /\ TempDirOf(o) \in tempDirs /\ live[c].ctx.TempDir \notin tempDirs

\* ------------------------------------------------ processes of one Execute

\* the processes of the call that the host did start
Started == {i \in 1..Len(spawned) : spawned[i].ended.kind = "exit"}
\* the launches of the tool's (possibly wrapped) vector, and the version probes
ToolLaunches == {i \in 1..Len(spawned) : spawned[i].stage = "run"}
VersionProbes ==
    {i \in 1..Len(spawned) :
        /\ spawned[i].stage = "requirements"
        /\ spawned[i].argv \in {DockerVersion, SingularityVersion, ApptainerVersion}}
RecordsOf(type) ==
    {i \in 1..Len(tool.Requirements) : BackendOf(tool.Requirements[i]) = type}

\* C26 (as stated): over a whole Execute call, availability probes included,
\* exactly one child process is started.
C26_ExactlyOneProcess ==
    Returns => Cardinality(Started) = 1

\* C26 (amended): Execute launches the tool's vector at most once, and exactly
\* once, as a started process, in every call that returns a result; every other
\* process it starts is a version probe of requirement processing, at most one
\* per DockerRequirement and two per SingularityRequirement of the descriptor.
C26_OneToolProcess ==
    /\ Cardinality(ToolLaunches) <= 1
    /\ (1..Len(spawned)) \ ToolLaunches = VersionProbes
    /\ \A i \in VersionProbes : \A j \in ToolLaunches : i < j
    /\ Cardinality(VersionProbes) <=
          Cardinality(RecordsOf("docker")) + 2 * Cardinality(RecordsOf("singularity"))
    /\ (Returns /\ out.err = NoErr) =>
          Cardinality(ToolLaunches \cap Started) = 1

\* a call has returned a result after two probes and the launch of the tool
C26_Witness ==
    /\ Returns
    /\ out.err = NoErr
    /\ Cardinality(VersionProbes) = 2
    /\ Cardinality(ToolLaunches \cap Started) = 1

\* ------------------------------------------- container path, native path

\* the context of the call without its container: what sends runCommand down
\* the native branch
NativeContext == [execCtx EXCEPT !.Container = NilContainer]
ProbedHost == [docker |-> "ok", singularity |-> "ok", apptainer |-> "ok"]

\* two returns of a run agree on result, exit code and kind of error
SameClassification(a, b) ==
    /\ a.result.nil = b.result.nil
    /\ a.result.ExitCode = b.result.ExitCode
    /\ (a.err = NoErr) <=> (b.err = NoErr)
    /\ a.err.Err = b.err.Err

\* the launched processes agree on everything but the vector
SameLaunch(p, q) ==
    /\ p.ended = q.ended
    /\ p.dir = q.dir
    /\ p.env = q.env
    /\ p.io = q.io

\* the native branch of runCommand, on the same tool, vector, redirection
\* files and process outcome, returns n
NativeRunMatches(n) ==
    /\ SameClassification(n.ret, runRet)
    /\ Len(n.procs) = Cardinality(ToolLaunches)
    /\ \A i \in ToolLaunches : SameLaunch(n.procs[1], spawned[i])
    /\ ToolLaunches = {} => n.made = dirFiles

\* C27: the container path and the native path classify outcomes alike: for the
\* same success codes and the same outcome of the process (exit 0, a code in
\* the set, a code outside it, no launch) runContainerCommand returns the exit
\* code and the error or non-error the native branch of runCommand returns, and
\* it redirects stdin, stdout and stderr and injects the environment in the
\* same way.
C27_SamePaths ==
    (Entered("run") /\ ~execCtx.Container.nil) =>
       \E order \in Enumerations(DOMAIN execCtx.EnvironmentVars),
          opened \in Openings(tool), how \in RunOutcomes :
          NativeRunMatches(runCommand(tool, ret.cmdArgs, NativeContext, order,
                                      ProbedHost, opened, how))

\* a tool run in a container has ended with a declared non-zero success code
\* and the run has returned without error
C27_Witness ==
    /\ Entered("run")
    /\ ~execCtx.Container.nil
    /\ \E i \in ToolLaunches :
          /\ spawned[i].ended.kind = "exit"
          /\ spawned[i].ended.code # 0
          /\ InCodes(tool.SuccessCodes, spawned[i].ended.code)
    /\ runRet.err = NoErr

\* -------------------------------------------- several container records

ContainerRecords == RecordsOf("docker") \cup RecordsOf("singularity")
\* the last container record of the descriptor
LastContainerRecord ==
    tool.Requirements[CHOOSE i \in ContainerRecords : \A j \in ContainerRecords : j <= i]
BackendBins(type) ==
    IF type = "docker" THEN {DockerBin} ELSE {SingularityBin, ApptainerBin}

\* C28: after requirement processing has succeeded on a descriptor with
\* container records, the context holds one container configuration, the one
\* built from the last container record alone, with no field of an earlier
\* record, and the tool is launched through the backend of that record.
C28_LastContainerWins ==
    (Entered("render") /\ ContainerRecords # {}) =>
       /\ execCtx.Container =
             ContainerOf(BackendOf(LastContainerRecord), LastContainerRecord)
       /\ \A i \in ToolLaunches :
             spawned[i].argv[1] \in BackendBins(BackendOf(LastContainerRecord))

\* a tool has been launched after two container records of different backends
\* were both accepted
C28_Witness ==
    /\ Cardinality(ContainerRecords) = 2
    /\ RecordsOf("docker") # {} /\ RecordsOf("singularity") # {}
    /\ ToolLaunches # {}

\* ------------------------------------------------------- the image token

\* the token of a wrapped vector that stands where the image is named: the one
\* before the original vector
ImageTokenOf(argv) == argv[Len(argv) - Len(ret.cmdArgs)]

\* C29: whenever a container requirement was accepted and the tool is launched
\* through the container path, the image token of the wrapped vector is a
\* non-empty string, whichever image-source fields the record populates.
C29_ImageTokenNonEmpty ==
    ~execCtx.Container.nil =>
       \A i \in ToolLaunches : ImageTokenOf(spawned[i].argv) # << >>

\* a tool has been launched in a container whose record names only a load path
C29_LoadOnlyLaunched ==
    /\ ~execCtx.Container.nil
    /\ execCtx.Container.Load # << >>
    /\ execCtx.Container.Image = << >> /\ execCtx.Container.ImageID = << >>
    /\ \E i \in ToolLaunches : ImageTokenOf(spawned[i].argv) = << >>

============================================================================
